---------------------------- MODULE Spec2Model ----------------------------
(***************************************************************************)
(* Model of the vibe-scraping report pipeline: the report template         *)
(* registry (src/src/reports.js), the Aggregator and the pass-through      *)
(* Digest Composer (src/src/analyze.js), and the item-level quality gate   *)
(* and the scrape command's report stages (src/unnamed/part_001).          *)
(*                                                                         *)
(* Texts are sequences of tokens.  A placeholder such as {subreddit} is    *)
(* one token, the literal stretches of a template between placeholders are *)
(* abbreviated to one token each, and the two replacement patterns of      *)
(* String.prototype.replace that scraped text can contain ($$ and $&) are  *)
(* tokens of their own.  A file is <<>> when absent and <<text>> when      *)
(* present.                                                                *)
(***************************************************************************)
EXTENDS Integers, Sequences, FiniteSets, TLC

VARIABLES
    lookups,        \* registry: the getReportConfig calls made, with results
    fs,             \* run directory: group -> [exists, posts, analysis]
    reports,        \* digest files written: path -> content
    cmd,            \* the command or stage function being executed
    pc,             \* its position
    subreddits,     \* the list of groups it works on
    idx,            \* loop index into subreddits (1-based)
    reportConfig,   \* the ReportConfig in use (an id of the registry)
    recipientName,  \* recipient label, "null" when none
    newsletter,     \* digest text under construction
    subredditAnalyses, \* generateCombinedNewsletter: collected group analyses
    ret,            \* return value of the last stage function that returned
    aggLog,         \* Aggregator invocations: [sub, cfg, absent, prompt, ...]
    synth,          \* synthesis model calls of generateCombinedNewsletter
    visited,        \* generateCombinedNewsletter: per group visit record
    nlLog,          \* generateNewsletter invocations
    digests,        \* generateCombinedNewsletter invocations that have returned
    cli,            \* the command line of the process and what its parse gave
    postsToVisit,   \* processSubreddit: the posts extracted from the listing
    postLocals,     \* processSubreddit: the locals of the current iteration
    pages,          \* browser pages that are open
    analyzeLog,     \* analyzeArticleAndComments invocations
    modelCalls      \* model calls issued under processAllAnalyses: settled or not

scrapeVars == <<postsToVisit, postLocals, pages, analyzeLog>>

vars == <<lookups, fs, reports, cmd, pc, subreddits, idx, reportConfig,
          recipientName, newsletter, subredditAnalyses, ret, aggLog, synth,
          visited, nlLog, digests, cli, scrapeVars, modelCalls>>

pipelineVars == <<fs, reports, cmd, pc, subreddits, idx, reportConfig,
                  recipientName, newsletter, subredditAnalyses, ret, aggLog,
                  synth, visited, nlLog, digests, cli, scrapeVars,
                  modelCalls>>

-----------------------------------------------------------------------------
(* Bounds *)

MaxLookups == 3     \* registry calls recorded in one behaviour
MaxItems == 2       \* item directories in a run directory, all groups together
MaxRuns == 2        \* generateCombinedNewsletter calls on one run directory
MaxArgs == 5        \* command-line arguments after the script name
MaxComments == 11   \* comments extracted from one post page

-----------------------------------------------------------------------------
(* Text helpers *)

RECURSIVE Concat(_)
Concat(ss) == IF ss = <<>> THEN <<>> ELSE Head(ss) \o Concat(Tail(ss))

RECURSIVE Join(_, _)
\* Array.prototype.join
Join(ss, sep) ==
    IF ss = <<>> THEN <<>>
    ELSE IF Len(ss) = 1 THEN ss[1]
    ELSE ss[1] \o sep \o Join(Tail(ss), sep)

\* The text a replacement string stands for: $$ inserts "$", $& inserts the
\* matched substring, everything else is copied.
ExpandReplacement(rep, match) ==
    Concat([i \in 1..Len(rep) |->
        IF rep[i] = "$$" THEN <<"$">>
        ELSE IF rep[i] = "$&" THEN <<match>>
        ELSE <<rep[i]>>])

\* s.replace(/ph/g, rep)
ReplaceAll(s, ph, rep) ==
    Concat([i \in 1..Len(s) |->
        IF s[i] = ph THEN ExpandReplacement(rep, ph) ELSE <<s[i]>>])

\* s.replace('ph', rep): a string pattern replaces the first match only
ReplaceFirst(s, ph, rep) ==
    IF \E i \in 1..Len(s) : s[i] = ph
    THEN LET k == CHOOSE i \in 1..Len(s) :
                    s[i] = ph /\ \A j \in 1..(i - 1) : s[j] # ph
         IN SubSeq(s, 1, k - 1) \o ExpandReplacement(rep, ph)
                \o SubSeq(s, k + 1, Len(s))
    ELSE s

\* sub occurs in s as a contiguous stretch (String.prototype.includes)
Includes(s, sub) ==
    \E i \in 0..(Len(s) - Len(sub)) : SubSeq(s, i + 1, i + Len(sub)) = sub

Count(s, tok) == Cardinality({i \in 1..Len(s) : s[i] = tok})

-----------------------------------------------------------------------------
(* Report template registry, src/src/reports.js *)

REPORT_TYPES == [newsletter |-> "newsletter", academic |-> "academic"]

DEFAULT_REPORT_TYPE == REPORT_TYPES.newsletter

newsletterConfig ==
    [id |-> "newsletterConfig",
     name |-> "Newsletter",
     description |-> "A general newsletter with insights on the latest content",
     newsletterIntro |->
        <<"# tl;dr ", "{subreddit}", "\n\nHey ", "{recipient_name}",
          ",\n\nYour personalized Reddit digest for r/", "{subreddit}",
          " is ready. Here are today's notable topics from ", "{date}",
          " that align with your interests:\n\n">>,
     subredditAnalysisPrompt |->
        <<"Create a comprehensive analysis of the subreddit r/", "{subreddit}",
          " ... Analyze these ", "{postCount}", " posts collectively ...",
          " this particular set of r/", "{subreddit}", " posts. ...",
          "{postAnalyses}", "\n">>,
     combinedNewsletterPrompt |->
        <<"Create a newsletter ... subreddit analyses to summarize:",
          "{subredditAnalyses}", "\n">>,
     newsletterItemPrompt |->
        <<"I need a high-quality newsletter summary ... [Title](",
          "{postLink}", ") ... original post URL: ", "{postLink}",
          " ... respond with ", "LOW_VALUE_CONTENT",
          " and I'll skip this post. ... Here's the analysis:",
          "{analysisText}", "\n">>,
     sentinel |-> "LOW_VALUE_CONTENT",
     combinedNewsletterFooter |->
        <<"\n---\n\nThat's all for today's digest. ...">>]

academicConfig ==
    [id |-> "academicConfig",
     name |-> "Literature Review",
     description |-> "A scholarly analysis for academic research and literature review",
     newsletterIntro |->
        <<"# Literature Review: r/", "{subreddit}", "\n\nDear ",
          "{recipient_name}",
          ",\n\nYour academic literature review from r/", "{subreddit}",
          " as of ", "{date}", " is now available. ...\n\n">>,
     subredditAnalysisPrompt |->
        <<"Conduct a formal literature review of content from the subreddit r/",
          "{subreddit}", " ... analyze these ", "{postCount}",
          " posts, focusing on: ...", "{postAnalyses}", "\n">>,
     combinedNewsletterPrompt |->
        <<"Create a formal literature review ...", "{subredditAnalyses}",
          "\n">>,
     newsletterItemPrompt |->
        <<"Evaluate this content ... Formal academic citation: [Author, Year](",
          "{postLink}", ") ... respond with ", "EXCLUDED_FROM_REVIEW",
          " only. ... Material for evaluation:", "{analysisText}", "\n">>,
     sentinel |-> "EXCLUDED_FROM_REVIEW",
     combinedNewsletterFooter |->
        <<"\n---\n\n## References ... Academic Research Division\n">>]

\* Values a property lookup on reportConfigs can yield besides a config
Undefined == [id |-> "undefined"]
ObjectPrototype ==
    [constructor |-> [id |-> "Object", name |-> "Object"],
     toString |-> [id |-> "Object.prototype.toString", name |-> "toString"]]

\* registers the newsletter config under both names
reportConfigsShared ==
    [newsletter |-> newsletterConfig, academic |-> newsletterConfig]

\* The own properties of the reportConfigs object literal
reportConfigs ==
    [newsletter |-> newsletterConfig, academic |-> academicConfig]

\* reportConfigs[type]: own property, else inherited from Object.prototype,
\* else undefined (a non-string key is converted to a string first)
GetProperty(type) ==
    IF type \in DOMAIN reportConfigs THEN reportConfigs[type]
    ELSE IF type \in DOMAIN ObjectPrototype THEN ObjectPrototype[type]
    ELSE Undefined

Truthy(v) == v # Undefined

getReportConfig(type) ==
    IF Truthy(GetProperty(type)) THEN GetProperty(type)
    ELSE GetProperty(DEFAULT_REPORT_TYPE)

getAvailableReportTypes == DOMAIN reportConfigs

\* Type names offered to the registry
TypeNames ==
    {"newsletter", "academic", "market", "bogus", "undefined", "NEWSLETTER",
     "constructor", "toString"}

-----------------------------------------------------------------------------
(* The run directory *)

\* Group directories, in the order readdirSync lists them
GroupOrder == <<"a", "b">>
Groups == {GroupOrder[i] : i \in 1..Len(GroupOrder)}

NoFile == <<>>
File(text) == <<text>>
Exists(f) == f # NoFile
Read(f) == f[1]

\* What an item directory holds once its item has been processed:
\* metadata.json only ("meta"), metadata and analysis.md ("md"), metadata and
\* the legacy analysis.txt ("txt").  metadata.json is written right after
\* the directory is made, so no item directory is without it.
ItemKinds == {"meta", "md", "txt"}

\* Scraped titles; the second post of a group has "$$" in its title
PostTitle(g, j) ==
    IF j = 2 THEN <<"Title " \o g \o ToString(j) \o ": save ", "$$", " now">>
    ELSE <<"Title " \o g \o ToString(j)>>

PostLink(g, j) == <<"https://reddit.com/r/" \o g \o "/comments/" \o ToString(j)>>

\* Item analyses: "X" for the first item of group a, "Y" for that of group b
AnalysisText(g, j) ==
    IF j = 1 THEN (IF g = "a" THEN <<"X">> ELSE <<"Y">>)
    ELSE <<"analysis of " \o g \o ToString(j)>>

\* An analysis.md of no content ("empty"): the file exists and reads as ''
EmptyText == <<>>

MkItem(g, j, kind) ==
    [meta |-> kind \in ItemKinds \cup {"empty"},
     title |-> PostTitle(g, j),
     link |-> PostLink(g, j),
     md |-> IF kind = "md" THEN File(AnalysisText(g, j))
            ELSE IF kind = "empty" THEN File(EmptyText)
            ELSE NoFile,
     txt |-> IF kind = "txt" THEN File(AnalysisText(g, j)) ELSE NoFile,
     article |-> NoFile]

KindSeqs == UNION {[1..n -> ItemKinds] : n \in 0..MaxItems}

RECURSIVE SumLen(_, _)
SumLen(f, S) ==
    IF S = {} THEN 0
    ELSE LET g == CHOOSE x \in S : TRUE IN Len(f[g]) + SumLen(f, S \ {g})

Layouts == {l \in [Groups -> KindSeqs] : SumLen(l, Groups) <= MaxItems}

\* subreddit_analysis.md left by an earlier run of the report command
StaleAnalysis(g) == <<"earlier analysis of " \o g>>

MkGroup(g, kinds, present, stale) ==
    [exists |-> present,
     posts |-> [j \in 1..Len(kinds) |-> MkItem(g, j, kinds[j])],
     analysis |-> IF stale THEN File(StaleAnalysis(g)) ELSE NoFile]

\* A group directory that does not exist holds nothing
RunDirs ==
    {[g \in Groups |-> MkGroup(g, l[g], p[g], s[g])] :
        l \in Layouts, p \in [Groups -> BOOLEAN], s \in [Groups -> BOOLEAN]}

WellFormed(d) ==
    \A g \in Groups :
        ~d[g].exists => d[g].posts = <<>> /\ d[g].analysis = NoFile

\* What the scrape command leaves in its fresh output directory: no legacy
\* file, no earlier group analysis, every item directory with its metadata
FreshRun(d) ==
    \A g \in Groups :
        /\ d[g].analysis = NoFile
        /\ \A j \in 1..Len(d[g].posts) :
              d[g].posts[j].meta /\ d[g].posts[j].txt = NoFile

-----------------------------------------------------------------------------
(* The model collaborator *)

\* openai.responses.create: rejects ("throw"), resolves without output_text
\* ("undef"), or resolves with text; a resolving model echoes its prompt
ModelOutcomes == {"throw", "undef", "echo"}

\* The per-item inclusion call additionally may answer with a sentinel
GateOutcomes ==
    {"throw", "undef", "echo", "LOW_VALUE_CONTENT", "EXCLUDED_FROM_REVIEW"}

IsConfig(cfg) == cfg.id \in {reportConfigs[t].id : t \in DOMAIN reportConfigs}

Recipients == {"null", "Ann"}

\* recipientName || fallback
OrElse(recipient, fallback) == IF recipient = "null" THEN fallback ELSE recipient

currentDate == "Monday, January 5, 2026"

-----------------------------------------------------------------------------
(* The Aggregator, src/src/analyze.js generateSubredditAnalysis *)

\* a catch that throws the error on
ErrorValueRethrown(prefix, message) == <<"uncaught", prefix, message>>

\* The string a catch block returns (or logs): prefix and error.message
ErrorValue(prefix, message) == <<prefix, message>>

IsErrorValue(text) == Len(text) = 2 /\ text[1] \in
    {"Error generating subreddit analysis: ",
     "Error generating topic-based digest: ",
     "Error generating newsletter: "}

\* writes analysis.md and leaves analysis.txt in place
MigratePostKeepLegacy(p) ==
    IF p.meta /\ ~Exists(p.md) /\ Exists(p.txt)
    THEN [p EXCEPT !.md = p.txt]
    ELSE p

\* An item directory after the reader has passed over it: a legacy
\* analysis.txt without analysis.md is rewritten as analysis.md and removed
MigratePost(p) ==
    IF p.meta /\ ~Exists(p.md) /\ Exists(p.txt)
    THEN [p EXCEPT !.md = p.txt, !.txt = NoFile]
    ELSE p

\* The items the reader collects: metadata present and an analysis file
HasAnalysis(p) == p.meta /\ (Exists(p.md) \/ Exists(p.txt))

CollectPostAnalyses(posts) ==
    LET kept == SelectSeq(posts, HasAnalysis)
    IN [k \in 1..Len(kept) |->
          [title |-> kept[k].title,
           analysis |-> IF Exists(kept[k].md) THEN Read(kept[k].md)
                        ELSE Read(kept[k].txt),
           link |-> kept[k].link]]

\* One tagged section of the group prompt
PostSection(index, post) ==
    <<"--- POST ", ToString(index), ": ">> \o post.title
        \o <<" ---\nPost URL: ">> \o post.link \o <<"\n">>
        \o post.analysis \o <<"\n">>

PostSections(postAnalyses) ==
    Join([k \in 1..Len(postAnalyses) |-> PostSection(k, postAnalyses[k])],
         <<"\n\n">>)

SubredditAnalysisPrompt(cfg, subreddit, postAnalyses) ==
    ReplaceAll(
        ReplaceAll(
            ReplaceAll(cfg.subredditAnalysisPrompt, "{subreddit}", <<subreddit>>),
            "{postCount}", <<ToString(Len(postAnalyses))>>),
        "{postAnalyses}", PostSections(postAnalyses))

\* never reports an empty collection
NoPostAnalysesNever(postAnalyses) == FALSE

\* The precondition check after the reader's loop
NoPostAnalyses(postAnalyses) == Len(postAnalyses) = 0

\* removes the group analysis of an earlier run
AfterCatchRemoved(d) == [d EXCEPT !.analysis = NoFile]

\* The group directory when the catch block has run: the catch logs and
\* returns the error string, it writes nothing and removes nothing
AfterCatch(d) == d

\* generateSubredditAnalysis(subreddit, runDir, reportConfig) on the group
\* directory dir, with the model behaving as outcome.  Yields the directory
\* afterwards, the value returned, whether the model was called and the
\* prompt sent.
generateSubredditAnalysis(dir, subreddit, cfg, outcome) ==
    LET fail(d, msg, called, prompt) ==
            [dir |-> AfterCatch(d), ok |-> FALSE, called |-> called,
             prompt |-> prompt,
             value |-> ErrorValue("Error generating subreddit analysis: ", msg)]
        migrated == [dir EXCEPT
                        !.posts = [j \in 1..Len(dir.posts) |->
                                      MigratePost(dir.posts[j])]]
        postAnalyses == CollectPostAnalyses(dir.posts)
        prompt == SubredditAnalysisPrompt(cfg, subreddit, postAnalyses)
    IN  IF ~dir.exists
            THEN fail(dir, "Subreddit directory not found", FALSE, <<>>)
        ELSE IF Len(dir.posts) = 0
            THEN fail(dir, "No post directories found", FALSE, <<>>)
        ELSE IF NoPostAnalyses(postAnalyses)
            THEN fail(migrated, "No valid post analyses found", FALSE, <<>>)
        ELSE IF ~IsConfig(cfg)
            THEN fail(migrated, "Cannot read properties of undefined",
                      FALSE, <<>>)
        ELSE IF outcome = "throw"
            THEN fail(migrated, "model call failed", TRUE, prompt)
        ELSE IF outcome = "undef"
            THEN fail(migrated, "The data argument must be of type string",
                      TRUE, prompt)
        ELSE [dir |-> [migrated EXCEPT !.analysis = File(prompt)],
              ok |-> TRUE, called |-> TRUE, prompt |-> prompt,
              value |-> prompt]

\* The record an Aggregator invocation leaves in aggLog
AggEntry(context, subreddit, cfg, before, r) ==
    [context |-> context, sub |-> subreddit, cfg |-> cfg.id,
     before |-> before, after |-> r.dir, ok |-> r.ok, called |-> r.called,
     prompt |-> r.prompt, value |-> r.value]

-----------------------------------------------------------------------------
(* The pass-through composer, src/src/analyze.js generateCombinedNewsletter *)

\* reportConfig.name.toLowerCase().replace(/\s+/g, '_')
Slug(name) ==
    CASE name = "Newsletter" -> "newsletter"
      [] name = "Literature Review" -> "literature_review"
      [] OTHER -> name

CombinedIntro(cfg, recipient) ==
    ReplaceAll(
        ReplaceAll(
            ReplaceAll(cfg.newsletterIntro, "{recipient_name}",
                       <<OrElse(recipient, "there")>>),
            "{date}", <<currentDate>>),
        "{subreddit}", <<"combined">>)

\* a section that leaves the group's analysis out
SubredditSectionHeaderOnly(item) ==
    <<"--- SUBREDDIT: r/", item.subreddit, " ---\nSubreddit URL: ",
      "https://reddit.com/r/", item.subreddit, "\n">>

SubredditSection(item) ==
    <<"--- SUBREDDIT: r/", item.subreddit, " ---\nSubreddit URL: ",
      "https://reddit.com/r/", item.subreddit, "\n">>
        \o item.analysis \o <<"\n">>

CombinedPrompt(cfg, analyses) ==
    ReplaceAll(cfg.combinedNewsletterPrompt, "{subredditAnalyses}",
        Join([k \in 1..Len(analyses) |-> SubredditSection(analyses[k])],
             <<"\n\n">>))

CombinedPath(cfg, recipient) ==
    <<"data/reports/<runId>/combined_", Slug(cfg.name), "_",
      OrElse(recipient, "all"), ".md">>

\* adds the text to what the file holds
WriteFileAppend(files, path, text) ==
    [q \in DOMAIN files \cup {path} |->
        IF q = path
        THEN (IF path \in DOMAIN files THEN files[path] \o text ELSE text)
        ELSE files[q]]

\* fs.writeFileSync(path, text): creates the file or replaces its content
WriteFile(files, path, text) ==
    [q \in DOMAIN files \cup {path} |-> IF q = path THEN text ELSE files[q]]

\* The reportConfig argument of the on-demand Aggregator call: the call is
\* generateSubredditAnalysis(subreddit, runDir), so the parameter is undefined
OnDemandConfig(cfg) == Undefined

\* retries the on-demand generation a second time
CombinedVisitGroupRetry(dir, subreddit, cfg, outcome) ==
    LET absent == ~Exists(dir.analysis)
        r == generateSubredditAnalysis(dir, subreddit, OnDemandConfig(cfg),
                                       outcome)
        e == AggEntry("on-demand", subreddit, OnDemandConfig(cfg), dir, r)
        after == IF absent THEN r.dir ELSE dir
        skip == absent /\ ~Exists(after.analysis)
    IN [dir |-> after,
        calls |-> IF absent THEN (IF skip THEN <<e, e>> ELSE <<e>>) ELSE <<>>,
        pushed |-> IF skip THEN <<>>
                   ELSE <<[subreddit |-> subreddit,
                           analysis |-> Read(after.analysis)]>>,
        visit |-> [sub |-> subreddit, before |-> dir.analysis]]

\* One iteration of the loop over the requested groups: dir is the group's
\* directory.  Yields the directory afterwards, the on-demand Aggregator
\* invocations made and the entry pushed to subredditAnalyses, if any.
CombinedVisitGroup(dir, subreddit, cfg, outcome) ==
    LET absent == ~Exists(dir.analysis)
        r == generateSubredditAnalysis(dir, subreddit, OnDemandConfig(cfg),
                                       outcome)
        after == IF absent THEN r.dir ELSE dir
        skip == absent /\ ~Exists(after.analysis)
    IN [dir |-> after,
        calls |-> IF absent
                  THEN <<AggEntry("on-demand", subreddit, OnDemandConfig(cfg),
                                  dir, r)>>
                  ELSE <<>>,
        pushed |-> IF skip THEN <<>>
                   ELSE <<[subreddit |-> subreddit,
                           analysis |-> Read(after.analysis)]>>,
        visit |-> [sub |-> subreddit, before |-> dir.analysis]]

\* goes on to the synthesis call with nothing collected
CombinedFinishResultNoGuard(cfg, recipient, intro, analyses, outcome) ==
    LET prompt == CombinedPrompt(cfg, analyses)
        text == intro \o (IF outcome = "undef" THEN <<"undefined">> ELSE prompt)
                    \o cfg.combinedNewsletterFooter
    IN  IF outcome = "throw"
            THEN [ok |-> FALSE, called |-> TRUE, prompt |-> prompt,
                  written |-> FALSE,
                  value |-> ErrorValue("Error generating topic-based digest: ",
                                       "model call failed")]
        ELSE [ok |-> TRUE, called |-> TRUE, prompt |-> prompt,
              written |-> TRUE, value |-> text]

\* The part of generateCombinedNewsletter after the loop.  Yields the value
\* returned, whether the model was called, the prompt and the file written.
CombinedFinishResult(cfg, recipient, intro, analyses, outcome) ==
    LET fail(msg, called, prompt) ==
            [ok |-> FALSE, called |-> called, prompt |-> prompt,
             written |-> FALSE,
             value |-> ErrorValue("Error generating topic-based digest: ", msg)]
        prompt == CombinedPrompt(cfg, analyses)
        text == intro \o (IF outcome = "undef" THEN <<"undefined">> ELSE prompt)
                    \o cfg.combinedNewsletterFooter
    IN  IF Len(analyses) = 0
            THEN fail("No valid subreddit analyses found", FALSE, <<>>)
        ELSE IF outcome = "throw"
            THEN fail("model call failed", TRUE, prompt)
        ELSE [ok |-> TRUE, called |-> TRUE, prompt |-> prompt,
              written |-> TRUE, value |-> text]

-----------------------------------------------------------------------------
(* The item-level quality gate, src/unnamed/part_001 generateNewsletter *)

NewsletterIntro(cfg, recipient, subreddit) ==
    ReplaceFirst(
        ReplaceFirst(
            ReplaceFirst(cfg.newsletterIntro, "{recipient_name}",
                         <<OrElse(recipient, "there")>>),
            "{subreddit}", <<subreddit>>),
        "{date}", <<currentDate>>)

NewsletterFooter(cfg, subreddit) ==
    ReplaceFirst(cfg.combinedNewsletterFooter, "{subreddit}", <<subreddit>>)

NewsletterItemPrompt(cfg, post) ==
    ReplaceFirst(
        ReplaceFirst(cfg.newsletterItemPrompt, "{postLink}", post.link),
        "{analysisText}", post.analysis)

NewsletterPath(cfg, recipient, subreddit) ==
    <<"<runDir>/", subreddit, "_", Slug(cfg.name), "_",
      OrElse(recipient, "default"), ".md">>

\* The literal the gate compares the trimmed response with
ExcludeLiteral(cfg) == "LOW_VALUE_CONTENT"

\* The text of a resolved response
ResponseText(outcome, prompt) == IF outcome = "echo" THEN prompt ELSE <<outcome>>

RECURSIVE GateLoop(_, _, _, _)
\* The loop over the item directories, from item j on: acc holds the body
\* so far, the outcomes of the calls made and whether a call has thrown
GateLoop(cfg, posts, outs, acc) ==
    IF acc.j > Len(posts) \/ acc.failed THEN acc
    ELSE LET p == posts[acc.j]
             post == [link |-> p.link,
                      analysis |-> IF Exists(p.md) THEN Read(p.md)
                                   ELSE Read(p.txt)]
             prompt == NewsletterItemPrompt(cfg, post)
             out == outs[acc.j]
             text == ResponseText(out, prompt)
         IN  IF ~HasAnalysis(p)
                THEN GateLoop(cfg, posts, outs, [acc EXCEPT !.j = @ + 1])
             ELSE IF out \in {"throw", "undef"}
                THEN [acc EXCEPT !.failed = TRUE,
                                 !.outcomes = Append(@, out)]
             ELSE GateLoop(cfg, posts, outs,
                    [acc EXCEPT !.j = @ + 1,
                                !.outcomes = Append(@, out),
                                !.body = IF text = <<ExcludeLiteral(cfg)>>
                                         THEN @
                                         ELSE @ \o text \o <<"\n\n">>])

\* generateNewsletter(recipientName, subreddit, runDir, reportConfig), outs
\* giving the model's behaviour at each item
generateNewsletter(dir, subreddit, cfg, recipient, outs) ==
    LET fail(msg, outcomes) ==
            [ok |-> FALSE, outcomes |-> outcomes, intro |-> <<>>,
             body |-> <<>>, footer |-> <<>>,
             value |-> ErrorValue("Error generating newsletter: ", msg)]
        intro == NewsletterIntro(cfg, recipient, subreddit)
        footer == NewsletterFooter(cfg, subreddit)
        loop == GateLoop(cfg, dir.posts, outs,
                    [j |-> 1, body |-> <<>>, outcomes |-> <<>>,
                     failed |-> FALSE])
    IN  IF ~dir.exists THEN fail("Subreddit directory not found", <<>>)
        ELSE IF Len(dir.posts) = 0 THEN fail("No post directories found", <<>>)
        ELSE IF loop.failed THEN fail("model call failed", loop.outcomes)
        ELSE [ok |-> TRUE, outcomes |-> loop.outcomes, intro |-> intro,
              body |-> loop.body, footer |-> footer,
              value |-> intro \o loop.body \o footer]

-----------------------------------------------------------------------------
(* The Item Analyzer, src/unnamed/part_001 analyzeArticleAndComments *)

POSTS_PER_SUBREDDIT == 3

\* comments.slice(0, 10): how many comments at most
TopCommentCount == 10

Min(a, b) == IF a < b THEN a ELSE b

ARTICLE_ANALYSIS_PROMPT_TEMPLATE ==
    <<"\n# Analysis: \"", "{postTitle}",
      "\"\n\n## Article Information\nTitle: ", "{postTitle}",
      "\nReddit Link: ", "{postLink}", "\n", "{externalLinkSection}",
      "\n\n## Article Content\n", "{articleText}",
      "\n\n## Top Reddit Comments\n", "{formattedComments}",
      "\n\n## Analysis Task\n...">>

\* The k-th of n comments as extractComments returns them; the scores rise
\* or fall along the list, and the second comment has "$$" in its text
MkComment(k, n, rising) ==
    [author |-> "user" \o ToString(k),
     score |-> ToString(IF rising THEN k ELSE n + 1 - k),
     isOP |-> (k = 3),
     text |-> IF k = 2 THEN <<"costs ", "$$", " a lot">>
              ELSE <<"comment " \o ToString(k)>>]

MkComments(n, rising) == [k \in 1..n |-> MkComment(k, n, rising)]

CommentLists == {MkComments(n, r) : n \in 0..MaxComments, r \in BOOLEAN}

\* keeps every comment
topCommentsAll(comments) == comments

\* comments.slice(0, 10)
topComments(comments) ==
    SubSeq(comments, 1, Min(TopCommentCount, Len(comments)))

FormatComment(comment) ==
    <<"---\nAuthor: ", comment.author>>
        \o (IF comment.isOP THEN <<" (Original Poster)">> ELSE <<>>)
        \o <<"\nScore: ", comment.score, "\nComment: ">> \o comment.text
        \o <<"\n---">>

formattedComments(comments) ==
    IF Len(comments) > 0
    THEN Join([k \in 1..Len(topComments(comments)) |->
                  FormatComment(topComments(comments)[k])], <<"\n\n">>)
    ELSE <<"No comments available">>

ArticleAnalysisPrompt(articleText, comments, postTitle, postLink, externalLink) ==
    LET externalLinkSection ==
            IF externalLink # "" THEN <<"External Link: ", externalLink>>
            ELSE <<>>
        articleTextContent ==
            IF articleText # <<>> THEN articleText
            ELSE <<"No article content available">>
    IN ReplaceFirst(
         ReplaceFirst(
           ReplaceFirst(
             ReplaceFirst(
               ReplaceFirst(ARTICLE_ANALYSIS_PROMPT_TEMPLATE,
                            "{postTitle}", postTitle),
               "{postLink}", postLink),
             "{externalLinkSection}", externalLinkSection),
           "{articleText}", articleTextContent),
         "{formattedComments}", formattedComments(comments))

\* analyzeArticleAndComments(articleText, comments, postTitle, postLink,
\* externalLink, postScreenshotPath), the model behaving as outcome
analyzeArticleAndComments(articleText, comments, postTitle, postLink, externalLink, outcome) ==
    LET prompt == ArticleAnalysisPrompt(articleText, comments, postTitle,
                                        postLink, externalLink)
    IN [comments |-> comments, prompt |-> prompt, outcome |-> outcome,
        ok |-> outcome # "throw",
        value |-> IF outcome = "throw"
                      THEN ErrorValue(
                             "Error analyzing post content and comments: ",
                             "model call failed")
                  ELSE IF outcome = "undef" THEN <<"No analysis generated">>
                  ELSE prompt]

-----------------------------------------------------------------------------
(* Initial states *)

NoReturn == [fn |-> "none", ok |-> TRUE, value |-> <<>>]

\* No command line parsed: the functions are called directly
NoCli ==
    [command |-> "none", argv |-> <<>>, exit |-> "none", log |-> <<>>,
     runDir |-> "", recipientName |-> "null",
     reportType |-> DEFAULT_REPORT_TYPE, subreddits |-> <<>>]

\* No iteration of the loop over the posts is under way
NoPost ==
    [index |-> 0, title |-> <<>>, link |-> <<>>, externalLink |-> "",
     comments |-> <<>>, articleText |-> <<>>]

EmptyRunDir == [g \in Groups |-> MkGroup(g, <<>>, FALSE, FALSE)]

IdleControl ==
    /\ reports = <<>>
    /\ cmd = "none"
    /\ pc = "idle"
    /\ subreddits = <<>>
    /\ idx = 0
    /\ reportConfig = Undefined
    /\ recipientName = "null"
    /\ newsletter = <<>>
    /\ subredditAnalyses = <<>>
    /\ ret = NoReturn
    /\ aggLog = <<>>
    /\ synth = <<>>
    /\ visited = <<>>
    /\ nlLog = <<>>
    /\ digests = <<>>
    /\ cli = NoCli
    /\ postsToVisit = <<>>
    /\ postLocals = NoPost
    /\ pages = {}
    /\ analyzeLog = <<>>
    /\ modelCalls = <<>>

\* A run directory as the scrape command (current or legacy) and earlier
\* runs of the report command can have left it
Init ==
    /\ lookups = <<>>
    /\ fs \in {d \in RunDirs : WellFormed(d)}
    /\ IdleControl

InitRegistry ==
    /\ lookups = <<>>
    /\ fs = EmptyRunDir
    /\ IdleControl

-----------------------------------------------------------------------------
(* Registry calls *)

RegistryLookup(type) ==
    /\ Len(lookups) < MaxLookups
    /\ lookups' = Append(lookups,
                    [type |-> type, result |-> getReportConfig(type).id])
    /\ UNCHANGED pipelineVars

-----------------------------------------------------------------------------
(* Command lines, src/src/analyze.js CLI entry and src/unnamed/part_001 main *)

\* The argument that names the run directory the model holds in fs
RunDirArg == "./output/run"

\* Words a command line is made of: the run directory, the two flags, a
\* flag the commands do not know, and words used as names and values
ArgTokens ==
    {RunDirArg, "--recipient", "--type", "--verbose", "Academic", "academic",
     "market", "newsletter"}

\* process.argv.slice(2)
ArgLists == UNION {[1..n -> ArgTokens] : n \in 0..MaxArgs}

\* tok.startsWith('--')
StartsWithDashes(tok) == tok \in {"--recipient", "--type", "--verbose"}

\* tok.toLowerCase()
ToLowerCase(tok) == IF tok = "Academic" THEN "academic" ELSE tok

DEFAULT_SUBREDDITS == <<"news", "ashland">>

\* What the parse has printed: one event per console line that matters
LogEvent(kind, arg) == [kind |-> kind, arg |-> arg]

RECURSIVE ParseFlags(_, _, _)
\* The while loop over the leading flags, from argument i on; acc holds
\* recipientName, reportType and the lines printed so far
ParseFlags(argv, i, acc) ==
    IF ~(Len(argv) >= i /\ StartsWithDashes(argv[i]))
        THEN [acc EXCEPT !.argIndex = i]
    ELSE IF argv[i] = "--recipient" /\ Len(argv) > i
        THEN ParseFlags(argv, i + 2,
                [acc EXCEPT !.recipientName = argv[i + 1]])
    ELSE IF argv[i] = "--type" /\ Len(argv) > i
        THEN LET requestedType == ToLowerCase(argv[i + 1])
             IN IF requestedType \in getAvailableReportTypes
                THEN ParseFlags(argv, i + 2,
                        [acc EXCEPT !.reportType = requestedType,
                                    !.log = Append(@,
                                        LogEvent("set", requestedType))])
                ELSE ParseFlags(argv, i + 2,
                        [acc EXCEPT !.log = Append(@,
                                        LogEvent("warn", requestedType))])
    ELSE [acc EXCEPT !.exit = "1",
                     !.log = Append(@, LogEvent("usage", argv[i])),
                     !.argIndex = i]

ParseStart ==
    [exit |-> "none", log |-> <<>>, runDir |-> "", recipientName |-> "null",
     reportType |-> DEFAULT_REPORT_TYPE, subreddits |-> <<>>, argIndex |-> 1]

\* The CLI entry of analyze.js up to the call of processAllAnalyses
ParseReportArgs(argv) ==
    IF Len(argv) < 1
    THEN [ParseStart EXCEPT !.exit = "1",
                            !.log = <<LogEvent("usage", "")>>]
    ELSE ParseFlags(argv, 2, [ParseStart EXCEPT !.runDir = argv[1]])

\* main of the scrape command up to getReportConfig
ParseScrapeArgs(argv) ==
    LET p == ParseFlags(argv, 1, ParseStart)
    IN  IF p.exit = "1" THEN p
        ELSE [p EXCEPT !.subreddits =
                 IF Len(argv) >= p.argIndex
                 THEN SubSeq(argv, p.argIndex, Len(argv))
                 ELSE DEFAULT_SUBREDDITS]

\* The process is started with a command line
CliInvoke(command, argv) ==
    /\ pc = "idle"
    /\ cli' = [NoCli EXCEPT !.command = command, !.argv = argv]
    /\ cmd' = IF command = "analyze" THEN "report" ELSE "main"
    /\ pc' = "parse"
    /\ UNCHANGED <<scrapeVars, modelCalls, digests, lookups, fs, reports, subreddits, idx,
                   reportConfig, recipientName, newsletter, subredditAnalyses,
                   ret, aggLog, synth, visited, nlLog>>

\* The arguments are parsed: process.exit(1), or on to the command proper
CliParse ==
    /\ pc = "parse"
    /\ LET p == IF cli.command = "analyze" THEN ParseReportArgs(cli.argv)
                ELSE ParseScrapeArgs(cli.argv)
       IN /\ cli' = [cli EXCEPT !.exit = p.exit, !.log = p.log,
                                !.runDir = p.runDir,
                                !.recipientName = p.recipientName,
                                !.reportType = p.reportType,
                                !.subreddits = p.subreddits]
          /\ pc' = IF p.exit = "1" THEN "done" ELSE "parsed"
    /\ UNCHANGED <<scrapeVars, modelCalls, digests, lookups, fs, reports, cmd, subreddits,
                   idx, reportConfig, recipientName, newsletter,
                   subredditAnalyses, ret, aggLog, synth, visited, nlLog>>

-----------------------------------------------------------------------------
(* The report command, src/src/analyze.js processAllAnalyses *)

\* Type names the report command is started with; "market" is offered by
\* the usage message
ReportTypeArgs == {"newsletter", "academic", "market"}

\* The directories readdirSync lists, less 'screenshots' and dot names
ListSubreddits(d) == SelectSeq(GroupOrder, LAMBDA g : d[g].exists)

\* The catch of processAllAnalyses: the failure is logged, nothing is thrown
ProcessingError(message) ==
    [fn |-> "processAllAnalyses", ok |-> FALSE,
     value |-> ErrorValue("Error processing analyses: ", message)]

ReportStart(recipient, type) ==
    /\ pc = "idle"
    /\ cmd' = "report"
    /\ recipientName' = recipient
    /\ subreddits' = ListSubreddits(fs)
    /\ IF Len(ListSubreddits(fs)) = 0
       THEN /\ pc' = "done"
            /\ ret' = ProcessingError("No subreddit directories found")
            /\ UNCHANGED <<idx, reportConfig>>
       ELSE /\ pc' = "agg"
            /\ idx' = 1
            /\ reportConfig' = getReportConfig(type)
            /\ UNCHANGED ret
    /\ UNCHANGED <<cli, scrapeVars, modelCalls, digests, lookups, fs, reports, newsletter,
                   subredditAnalyses, aggLog, synth, visited, nlLog>>

\* processAllAnalyses called from the CLI entry with the parsed arguments;
\* the command line is not looked at again
ReportRun ==
    /\ pc = "parsed"
    /\ cli.command = "analyze"
    /\ cli' = [cli EXCEPT !.argv = <<>>]
    /\ recipientName' = cli.recipientName
    /\ IF cli.runDir # RunDirArg
       THEN /\ pc' = "done"
            /\ ret' = ProcessingError("ENOENT: no such file or directory")
            /\ UNCHANGED <<subreddits, idx, reportConfig>>
       ELSE IF Len(ListSubreddits(fs)) = 0
       THEN /\ pc' = "done"
            /\ ret' = ProcessingError("No subreddit directories found")
            /\ subreddits' = ListSubreddits(fs)
            /\ UNCHANGED <<idx, reportConfig>>
       ELSE /\ pc' = "agg"
            /\ idx' = 1
            /\ subreddits' = ListSubreddits(fs)
            /\ reportConfig' = getReportConfig(cli.reportType)
            /\ UNCHANGED ret
    /\ UNCHANGED <<scrapeVars, modelCalls, digests, lookups, fs, reports, cmd, newsletter,
                   subredditAnalyses, aggLog, synth, visited, nlLog>>

\* lets a failed Aggregator end the whole command
ReportAggregateAbort(outcome) ==
    /\ pc = "agg"
    /\ cmd = "report"
    /\ LET sub == subreddits[idx]
           r == generateSubredditAnalysis(fs[sub], sub, reportConfig, outcome)
       IN /\ fs' = [fs EXCEPT ![sub] = r.dir]
          /\ aggLog' = Append(aggLog,
                          AggEntry("report", sub, reportConfig, fs[sub], r))
          /\ ret' = [fn |-> "generateSubredditAnalysis", ok |-> r.ok,
                     value |-> r.value]
          /\ IF ~r.ok THEN idx' = idx /\ pc' = "done"
             ELSE IF idx < Len(subreddits) THEN idx' = idx + 1 /\ pc' = "agg"
             ELSE idx' = 1 /\ pc' = "begin"
    /\ UNCHANGED <<cli, scrapeVars, modelCalls, digests, lookups, reports, cmd, subreddits, reportConfig,
                   recipientName, newsletter, subredditAnalyses, synth,
                   visited, nlLog>>

\* One iteration of the loop that aggregates every discovered group
ReportAggregate(outcome) ==
    /\ pc = "agg"
    /\ cmd = "report"
    /\ LET sub == subreddits[idx]
           r == generateSubredditAnalysis(fs[sub], sub, reportConfig, outcome)
       IN /\ fs' = [fs EXCEPT ![sub] = r.dir]
          /\ aggLog' = Append(aggLog,
                          AggEntry("report", sub, reportConfig, fs[sub], r))
          /\ ret' = [fn |-> "generateSubredditAnalysis", ok |-> r.ok,
                     value |-> r.value]
    /\ IF idx < Len(subreddits)
       THEN idx' = idx + 1 /\ pc' = "agg"
       ELSE idx' = 1 /\ pc' = "begin"
    /\ UNCHANGED <<cli, scrapeVars, modelCalls, digests, lookups, reports, cmd, subreddits, reportConfig,
                   recipientName, newsletter, subredditAnalyses, synth,
                   visited, nlLog>>

-----------------------------------------------------------------------------
(* generateCombinedNewsletter, step by step *)

\* Lists of groups a caller can request
SubredditLists ==
    {<<g>> : g \in Groups} \cup
    {s \in Groups \X Groups : s[1] # s[2]}

\* A direct call of the exported function
CombinedCall(recipient, type, subs) ==
    /\ pc = "idle"
    /\ cmd' = "combined"
    /\ pc' = "begin"
    /\ recipientName' = recipient
    /\ reportConfig' = getReportConfig(type)
    /\ subreddits' = subs
    /\ idx' = 1
    /\ UNCHANGED <<cli, scrapeVars, modelCalls, digests, lookups, fs, reports, newsletter, subredditAnalyses, ret,
                   aggLog, synth, visited, nlLog>>

\* Entry: the intro is built from the template
CombinedBegin ==
    /\ pc = "begin"
    /\ newsletter' = CombinedIntro(reportConfig, recipientName)
    /\ subredditAnalyses' = <<>>
    /\ visited' = <<>>
    /\ idx' = 1
    /\ pc' = "visit"
    /\ UNCHANGED <<cli, scrapeVars, modelCalls, digests, lookups, fs, reports, cmd, subreddits, reportConfig,
                   recipientName, ret, aggLog, synth, nlLog>>

\* One iteration of the loop over the requested groups
CombinedVisit(outcome) ==
    /\ pc = "visit"
    /\ LET sub == subreddits[idx]
           v == CombinedVisitGroup(fs[sub], sub, reportConfig, outcome)
       IN /\ fs' = [fs EXCEPT ![sub] = v.dir]
          /\ aggLog' = aggLog \o v.calls
          /\ subredditAnalyses' = subredditAnalyses \o v.pushed
          /\ visited' = Append(visited, v.visit)
    /\ IF idx < Len(subreddits)
       THEN idx' = idx + 1 /\ pc' = "visit"
       ELSE idx' = idx /\ pc' = "finish"
    /\ UNCHANGED <<cli, scrapeVars, modelCalls, digests, lookups, reports, cmd, subreddits, reportConfig,
                   recipientName, newsletter, ret, synth, nlLog>>

\* After the loop: the synthesis call and the write of the digest
CombinedFinish(outcome) ==
    /\ pc = "finish"
    /\ LET r == CombinedFinishResult(reportConfig, recipientName, newsletter,
                                     subredditAnalyses, outcome)
       IN /\ ret' = [fn |-> "generateCombinedNewsletter", ok |-> r.ok,
                     value |-> r.value]
          /\ synth' = IF r.called
                      THEN Append(synth, [prompt |-> r.prompt,
                                          outcome |-> outcome])
                      ELSE synth
          /\ reports' = IF r.written
                        THEN WriteFile(reports,
                                CombinedPath(reportConfig, recipientName),
                                r.value)
                        ELSE reports
          /\ newsletter' = IF r.written THEN r.value ELSE newsletter
          /\ digests' = Append(digests,
                          [cfg |-> reportConfig.id, recipient |-> recipientName,
                           called |-> r.called, outcome |-> outcome,
                           written |-> r.written,
                           path |-> CombinedPath(reportConfig, recipientName),
                           value |-> r.value])
    /\ pc' = "done"
    /\ UNCHANGED <<modelCalls, cli, scrapeVars, lookups, fs, cmd, subreddits, idx,
                   reportConfig,
                   recipientName, subredditAnalyses, aggLog, visited, nlLog>>

\* The caller has the returned digest and calls again on the same run
\* directory
CombinedReturn ==
    /\ pc = "done"
    /\ cmd = "combined"
    /\ Len(digests) < MaxRuns
    /\ pc' = "idle"
    /\ UNCHANGED <<cli, scrapeVars, modelCalls, digests, lookups, fs, reports, cmd,
                   subreddits, idx, reportConfig, recipientName, newsletter,
                   subredditAnalyses, ret, aggLog, synth, visited, nlLog>>

-----------------------------------------------------------------------------
(* A direct call of the exported Aggregator *)

AggregateCall(sub, type, outcome) ==
    /\ pc = "idle"
    /\ cmd' = "aggregate"
    /\ pc' = "done"
    /\ reportConfig' = getReportConfig(type)
    /\ subreddits' = <<sub>>
    /\ LET r == generateSubredditAnalysis(fs[sub], sub, getReportConfig(type),
                                          outcome)
       IN /\ fs' = [fs EXCEPT ![sub] = r.dir]
          /\ aggLog' = Append(aggLog,
                          AggEntry("direct", sub, getReportConfig(type),
                                   fs[sub], r))
          /\ ret' = [fn |-> "generateSubredditAnalysis", ok |-> r.ok,
                     value |-> r.value]
    /\ UNCHANGED <<cli, scrapeVars, modelCalls, digests, lookups, reports, idx, recipientName, newsletter,
                   subredditAnalyses, synth, visited, nlLog>>

-----------------------------------------------------------------------------
(* The scrape command after scraping, src/unnamed/part_001 main *)

\* The scraping stage has run: the output directory is fresh
MainStart(recipient, type, subs) ==
    /\ pc = "idle"
    /\ FreshRun(fs)
    /\ cmd' = "main"
    /\ pc' = "newsletters"
    /\ recipientName' = recipient
    /\ reportConfig' = getReportConfig(type)
    /\ subreddits' = subs
    /\ idx' = 1
    /\ UNCHANGED <<cli, scrapeVars, modelCalls, digests, lookups, fs, reports, newsletter, subredditAnalyses, ret,
                   aggLog, synth, visited, nlLog>>

\* One iteration of the loop that writes the single-group reports
MainNewsletter(outs) ==
    /\ pc = "newsletters"
    /\ DOMAIN outs = 1..Len(fs[subreddits[idx]].posts)
    /\ LET sub == subreddits[idx]
           r == generateNewsletter(fs[sub], sub, reportConfig, recipientName,
                                   outs)
       IN /\ nlLog' = Append(nlLog,
                        [sub |-> sub, cfg |-> reportConfig.id, ok |-> r.ok,
                         outcomes |-> r.outcomes, intro |-> r.intro,
                         body |-> r.body, footer |-> r.footer,
                         value |-> r.value])
          /\ reports' = IF r.ok
                        THEN WriteFile(reports,
                                NewsletterPath(reportConfig, recipientName, sub),
                                r.value)
                        ELSE reports
          /\ ret' = [fn |-> "generateNewsletter", ok |-> r.ok,
                     value |-> r.value]
    /\ IF idx < Len(subreddits)
       THEN idx' = idx + 1 /\ pc' = "newsletters"
       ELSE idx' = 1 /\ pc' = "analyses"
    /\ UNCHANGED <<cli, scrapeVars, modelCalls, digests, lookups, fs, cmd, subreddits, reportConfig, recipientName,
                   newsletter, subredditAnalyses, aggLog, synth, visited>>

\* One iteration of the loop that aggregates every requested group
MainAggregate(outcome) ==
    /\ pc = "analyses"
    /\ LET sub == subreddits[idx]
           r == generateSubredditAnalysis(fs[sub], sub, reportConfig, outcome)
       IN /\ fs' = [fs EXCEPT ![sub] = r.dir]
          /\ aggLog' = Append(aggLog,
                          AggEntry("main", sub, reportConfig, fs[sub], r))
          /\ ret' = [fn |-> "generateSubredditAnalysis", ok |-> r.ok,
                     value |-> r.value]
    /\ IF idx < Len(subreddits)
       THEN idx' = idx + 1 /\ pc' = "analyses"
       ELSE idx' = 1 /\ pc' = "verify"
    /\ UNCHANGED <<cli, scrapeVars, modelCalls, digests, lookups, reports, cmd, subreddits, reportConfig,
                   recipientName, newsletter, subredditAnalyses, synth,
                   visited, nlLog>>

\* Whether main goes on to the combined report
AllAnalysesExist(d, subs) ==
    \A k \in 1..Len(subs) : Exists(d[subs[k]].analysis)

\* The check before the combined report
MainVerify ==
    /\ pc = "verify"
    /\ pc' = IF AllAnalysesExist(fs, subreddits) THEN "begin" ELSE "done"
    /\ UNCHANGED <<cli, scrapeVars, modelCalls, digests, lookups, fs, reports, cmd, subreddits, idx, reportConfig,
                   recipientName, newsletter, subredditAnalyses, ret, aggLog,
                   synth, visited, nlLog>>

-----------------------------------------------------------------------------
(* Scraping one subreddit, src/unnamed/part_001 processSubreddit *)

\* What a post of the listing can be: a text post, a link post, or an
\* element without permalink
PostKinds == {"text", "link", "nolink"}

\* postsData as page.evaluate returns it for subreddit g
MkPost(g, j, kind) ==
    [title |-> PostTitle(g, j),
     link |-> IF kind = "nolink" THEN <<"No link found">> ELSE PostLink(g, j),
     isLinkPost |-> (kind = "link"),
     externalLink |-> IF kind = "link" THEN "https://example.com/story" ELSE ""]

PostLists(g) ==
    {[j \in 1..Len(kinds) |-> MkPost(g, j, kinds[j])] :
        kinds \in UNION {[1..n -> PostKinds] : n \in 0..MaxItems}}

\* Comment lists a post page yields in a scraping run
ScrapedComments == {MkComments(n, TRUE) : n \in {0, 2}}

\* The scrape command calls processSubreddit on its new output directory
ScrapeStart(g) ==
    /\ pc = "idle"
    /\ \A h \in Groups : ~fs[h].exists
    /\ cmd' = "scrape"
    /\ subreddits' = <<g>>
    /\ pages' = pages \cup {[kind |-> "listing", index |-> 0]}
    /\ pc' = "listing"
    /\ UNCHANGED <<cli, modelCalls, digests, lookups, fs, reports, idx, reportConfig,
                   recipientName, newsletter, subredditAnalyses, ret, aggLog,
                   synth, visited, nlLog, postsToVisit, postLocals,
                   analyzeLog>>

\* Where the loop over postsToVisit goes after post i
NextPost(i, posts) == IF i < Len(posts) THEN "post" ELSE "done"

\* The listing page: loaded, saved and its posts extracted, or a failure
\* that ends processSubreddit in its outer catch
ScrapeListing(ok, postsData) ==
    /\ pc = "listing"
    /\ IF ok
       THEN /\ fs' = [fs EXCEPT ![subreddits[1]].exists = TRUE]
            /\ postsToVisit' =
                  SubSeq(postsData, 1, Min(POSTS_PER_SUBREDDIT, Len(postsData)))
            /\ pages' = pages \ {[kind |-> "listing", index |-> 0]}
            /\ idx' = 1
            /\ pc' = NextPost(0, postsData)
       ELSE /\ pc' = "done"
            /\ UNCHANGED <<fs, postsToVisit, pages, idx>>
    /\ UNCHANGED <<cli, modelCalls, digests, lookups, reports, cmd, subreddits,
                   reportConfig, recipientName, newsletter, subredditAnalyses,
                   ret, aggLog, synth, visited, nlLog, postLocals, analyzeLog>>

\* The head of one iteration: a post without link is passed over; else the
\* post directory is made, metadata.json written and the post page opened
PostBegin ==
    /\ pc = "post"
    /\ LET p == postsToVisit[idx]
           g == subreddits[1]
       IN IF p.link = <<"No link found">>
          THEN /\ pc' = NextPost(idx, postsToVisit)
               /\ idx' = idx + 1
               /\ UNCHANGED <<fs, pages, postLocals>>
          ELSE /\ fs' = [fs EXCEPT ![g].posts =
                            Append(@, [meta |-> TRUE, title |-> p.title,
                                       link |-> p.link, md |-> NoFile,
                                       txt |-> NoFile, article |-> NoFile])]
               /\ pages' = pages \cup {[kind |-> "post", index |-> idx]}
               /\ postLocals' = [NoPost EXCEPT !.index = idx,
                                    !.title = p.title, !.link = p.link,
                                    !.externalLink = p.externalLink]
               /\ pc' = "postPage"
               /\ UNCHANGED idx
    /\ UNCHANGED <<cli, modelCalls, digests, lookups, reports, cmd, subreddits,
                   reportConfig, recipientName, newsletter, subredditAnalyses,
                   ret, aggLog, synth, visited, nlLog, postsToVisit,
                   analyzeLog>>

\* The post page: loaded, captured and its comments extracted, or a failure
\* that ends the iteration in its catch
PostGoto(ok, commentsData) ==
    /\ pc = "postPage"
    /\ IF ok
       THEN /\ postLocals' = [postLocals EXCEPT !.comments = commentsData]
            /\ pc' = IF postsToVisit[idx].isLinkPost THEN "external"
                     ELSE "analyze"
            /\ UNCHANGED idx
       ELSE /\ postLocals' = NoPost
            /\ pc' = NextPost(idx, postsToVisit)
            /\ idx' = idx + 1
    /\ UNCHANGED <<cli, modelCalls, digests, lookups, fs, reports, cmd, subreddits,
                   reportConfig, recipientName, newsletter, subredditAnalyses,
                   ret, aggLog, synth, visited, nlLog, postsToVisit, pages,
                   analyzeLog>>

\* What following the external link can come to: the article text is
\* extracted, the extraction call fails inside analyzeImage, or the page
\* cannot be loaded
ExternalOutcomes == {"extracted", "image-error", "unreachable"}

\* goes on with no article text
ExternalFailureTextNone(message) == <<>>

\* articleText in the catch of the inner try
ExternalFailureText(message) ==
    <<"Unable to access external link: ", message>>

\* The text analyzeImage returns or the catch of the inner try builds
ExternalArticleText(outcome) ==
    CASE outcome = "extracted" -> <<"text of the article">>
      [] outcome = "image-error" ->
              ErrorValue("Error analyzing image: ", "model call failed")
      [] OTHER -> ExternalFailureText("net::ERR_FAILED")

\* The inner try of a link post and its catch: either way the article text
\* is written to external/article.txt of the post directory
PostExternal(outcome) ==
    /\ pc = "external"
    /\ postLocals' = [postLocals EXCEPT
                        !.articleText = ExternalArticleText(outcome)]
    /\ LET g == subreddits[1]
       IN fs' = [fs EXCEPT ![g].posts[Len(fs[g].posts)].article =
                              File(ExternalArticleText(outcome))]
    /\ pages' = IF outcome = "unreachable"
                THEN pages \cup {[kind |-> "external", index |-> idx]}
                ELSE pages
    /\ pc' = "analyze"
    /\ UNCHANGED <<cli, modelCalls, digests, lookups, reports, cmd, subreddits, idx,
                   reportConfig, recipientName, newsletter, subredditAnalyses,
                   ret, aggLog, synth, visited, nlLog, postsToVisit,
                   analyzeLog>>

\* The analysis of the post, written as analysis.md; then the post page is
\* closed and the loop goes on
PostAnalyze(outcome) ==
    /\ pc = "analyze"
    /\ LET g == subreddits[1]
           r == analyzeArticleAndComments(postLocals.articleText,
                    postLocals.comments, postLocals.title, postLocals.link,
                    postLocals.externalLink, outcome)
       IN /\ analyzeLog' = Append(analyzeLog, r)
          /\ ret' = [fn |-> "analyzeArticleAndComments", ok |-> r.ok,
                     value |-> r.value]
          /\ fs' = [fs EXCEPT ![g].posts[Len(fs[g].posts)].md = File(r.value)]
    /\ pages' = pages \ {[kind |-> "post", index |-> idx]}
    /\ postLocals' = NoPost
    /\ pc' = NextPost(idx, postsToVisit)
    /\ idx' = idx + 1
    /\ UNCHANGED <<cli, modelCalls, digests, lookups, reports, cmd, subreddits,
                   reportConfig, recipientName, newsletter, subredditAnalyses,
                   aggLog, synth, visited, nlLog, postsToVisit>>

-----------------------------------------------------------------------------
(* processAllAnalyses with its model calls in flight, src/src/analyze.js *)

\* goes on without waiting for the call
AwaitNot(waiting, next) == next

\* The position of a frame that has issued a call with await: it stays at
\* the await until the call has settled
Await(waiting, next) == waiting

\* Where the loop over the discovered groups goes after group i
AfterGroup(i, subs) == IF i < Len(subs) THEN "agg" ELSE "begin"

\* A model call that has been issued: before is the group directory as the
\* calling function found it
ModelCall(fn, sub, before) ==
    [fn |-> fn, sub |-> sub, before |-> before, settled |-> FALSE]

\* The model calls that have not settled yet
Outstanding == {k \in 1..Len(modelCalls) : ~modelCalls[k].settled}

\* generateSubredditAnalysis for the group at idx, up to its model call: it
\* returns an error value before the call, or issues the call and awaits it
SeqAggregateStart ==
    /\ pc = "agg"
    /\ cmd = "report"
    /\ LET sub == subreddits[idx]
           r == generateSubredditAnalysis(fs[sub], sub, reportConfig, "throw")
           next == AfterGroup(idx, subreddits)
           at == IF r.called THEN Await("aggWait", next) ELSE next
       IN /\ fs' = [fs EXCEPT ![sub] = r.dir]
          /\ IF r.called
             THEN /\ modelCalls' = Append(modelCalls,
                        ModelCall("generateSubredditAnalysis", sub, fs[sub]))
                  /\ UNCHANGED <<aggLog, ret>>
             ELSE /\ aggLog' = Append(aggLog,
                        AggEntry("report", sub, reportConfig, fs[sub], r))
                  /\ ret' = [fn |-> "generateSubredditAnalysis", ok |-> r.ok,
                             value |-> r.value]
                  /\ UNCHANGED modelCalls
          /\ pc' = at
          /\ idx' = IF at = "aggWait" THEN idx
                    ELSE IF at = "agg" THEN idx + 1 ELSE 1
    /\ UNCHANGED <<cli, scrapeVars, digests, lookups, reports, cmd,
                   subreddits, reportConfig, recipientName, newsletter,
                   subredditAnalyses, synth, visited, nlLog>>

\* The model call k of an Aggregator settles: the answer is written and
\* returned, or the catch returns the error value; a loop that awaits the
\* call goes on
SeqAggregateSettle(k, outcome) ==
    /\ k \in Outstanding
    /\ modelCalls[k].fn = "generateSubredditAnalysis"
    /\ LET sub == modelCalls[k].sub
           r == generateSubredditAnalysis(fs[sub], sub, reportConfig, outcome)
       IN /\ fs' = [fs EXCEPT ![sub] = r.dir]
          /\ aggLog' = Append(aggLog,
                AggEntry("report", sub, reportConfig, modelCalls[k].before, r))
          /\ ret' = [fn |-> "generateSubredditAnalysis", ok |-> r.ok,
                     value |-> r.value]
    /\ modelCalls' = [modelCalls EXCEPT ![k].settled = TRUE]
    /\ IF pc = "aggWait"
       THEN /\ pc' = AfterGroup(idx, subreddits)
            /\ idx' = IF idx < Len(subreddits) THEN idx + 1 ELSE 1
       ELSE UNCHANGED <<pc, idx>>
    /\ UNCHANGED <<cli, scrapeVars, digests, lookups, reports, cmd,
                   subreddits, reportConfig, recipientName, newsletter,
                   subredditAnalyses, synth, visited, nlLog>>

\* generateCombinedNewsletter after its loop, with analyses collected: the
\* synthesis call is issued and awaited
SeqSynthesisStart ==
    /\ pc = "finish"
    /\ Len(subredditAnalyses) > 0
    /\ modelCalls' = Append(modelCalls,
            ModelCall("generateCombinedNewsletter", "combined", NoFile))
    /\ pc' = Await("synthWait", "done")
    /\ UNCHANGED <<cli, scrapeVars, digests, lookups, fs, reports, cmd,
                   subreddits, idx, reportConfig, recipientName, newsletter,
                   subredditAnalyses, ret, aggLog, synth, visited, nlLog>>

\* The synthesis call k settles: the digest is written and returned, or the
\* catch returns the error value
SeqSynthesisSettle(k, outcome) ==
    /\ k \in Outstanding
    /\ modelCalls[k].fn = "generateCombinedNewsletter"
    /\ LET r == CombinedFinishResult(reportConfig, recipientName, newsletter,
                                     subredditAnalyses, outcome)
       IN /\ ret' = [fn |-> "generateCombinedNewsletter", ok |-> r.ok,
                     value |-> r.value]
          /\ synth' = Append(synth, [prompt |-> r.prompt, outcome |-> outcome])
          /\ reports' = IF r.written
                        THEN WriteFile(reports,
                                CombinedPath(reportConfig, recipientName),
                                r.value)
                        ELSE reports
          /\ newsletter' = IF r.written THEN r.value ELSE newsletter
          /\ digests' = Append(digests,
                          [cfg |-> reportConfig.id, recipient |-> recipientName,
                           called |-> r.called, outcome |-> outcome,
                           written |-> r.written,
                           path |-> CombinedPath(reportConfig, recipientName),
                           value |-> r.value])
    /\ modelCalls' = [modelCalls EXCEPT ![k].settled = TRUE]
    /\ pc' = "done"
    /\ UNCHANGED <<cli, scrapeVars, lookups, fs, cmd, subreddits, idx,
                   reportConfig, recipientName, subredditAnalyses, aggLog,
                   visited, nlLog>>

-----------------------------------------------------------------------------
(* Specifications *)

Next ==
    \/ \E r \in Recipients, t \in ReportTypeArgs : ReportStart(r, t)
    \/ \E o \in ModelOutcomes : ReportAggregate(o)
    \/ \E r \in Recipients, t \in ReportTypeArgs, subs \in SubredditLists :
            CombinedCall(r, t, subs)
    \/ CombinedBegin
    \/ \E o \in ModelOutcomes : CombinedVisit(o)
    \/ \E o \in ModelOutcomes : CombinedFinish(o)
    \/ \E g \in Groups, t \in ReportTypeArgs, o \in ModelOutcomes :
            AggregateCall(g, t, o)
    \/ \E r \in Recipients, t \in ReportTypeArgs, subs \in SubredditLists :
            MainStart(r, t, subs)
    \/ \E n \in 0..MaxItems : \E outs \in [1..n -> GateOutcomes] :
            MainNewsletter(outs)
    \/ \E o \in ModelOutcomes : MainAggregate(o)
    \/ MainVerify

Spec == Init /\ [][Next]_vars

\* Repeated digests of one run directory: every group has one analysed item,
\* with or without a group analysis of an earlier run
RerunDirs ==
    {d \in RunDirs :
        /\ WellFormed(d)
        /\ \A g \in Groups :
              /\ d[g].exists
              /\ Len(d[g].posts) = 1
              /\ Exists(d[g].posts[1].md)}

\* Recipient labels, among them the one the file name uses for no label
RerunRecipients == Recipients \cup {"all"}

InitRerun ==
    /\ lookups = <<>>
    /\ fs \in RerunDirs
    /\ IdleControl

NextRerun ==
    \/ \E r \in RerunRecipients, t \in ReportTypeArgs :
            CombinedCall(r, t, ListSubreddits(fs))
    \/ CombinedBegin
    \/ \E o \in ModelOutcomes : CombinedVisit(o)
    \/ \E o \in ModelOutcomes : CombinedFinish(o)
    \/ CombinedReturn

SpecRerun == InitRerun /\ [][NextRerun]_vars

\* A scraped run directory: groups a and b with one analysed item each
CliDirs == {d \in RerunDirs : FreshRun(d)}

InitCli ==
    /\ lookups = <<>>
    /\ fs \in CliDirs
    /\ IdleControl

NextCli ==
    \/ pc = "idle" /\ \E c \in {"analyze", "scrape"}, argv \in ArgLists :
                            CliInvoke(c, argv)
    \/ CliParse
    \/ ReportRun
    \/ \E o \in ModelOutcomes : ReportAggregate(o)
    \/ CombinedBegin
    \/ \E o \in ModelOutcomes : CombinedVisit(o)
    \/ \E o \in ModelOutcomes : CombinedFinish(o)

SpecCli == InitCli /\ [][NextCli]_vars

InitScrape ==
    /\ lookups = <<>>
    /\ fs = EmptyRunDir
    /\ IdleControl

NextScrape ==
    \/ \E g \in Groups : ScrapeStart(g)
    \/ pc = "listing" /\ \E ok \in BOOLEAN :
            \E postsData \in PostLists(subreddits[1]) :
                ScrapeListing(ok, postsData)
    \/ PostBegin
    \/ \E ok \in BOOLEAN, commentsData \in ScrapedComments :
            PostGoto(ok, commentsData)
    \/ \E o \in ExternalOutcomes : PostExternal(o)
    \/ \E o \in ModelOutcomes : PostAnalyze(o)

SpecScrape == InitScrape /\ [][NextScrape]_vars

\* Run directories in which analysis files can be empty: the report command
\* takes any directory, and writeFileSync truncates the file before it
\* writes, so an interrupted write leaves analysis.md with no content
EmptyKinds == {"meta", "md", "empty"}

EmptyLayouts ==
    {l \in [Groups -> UNION {[1..n -> EmptyKinds] : n \in 0..MaxItems}] :
        SumLen(l, Groups) <= MaxItems}

EmptyDirs ==
    {[g \in Groups |-> MkGroup(g, l[g], TRUE, s[g])] :
        l \in EmptyLayouts, s \in [Groups -> BOOLEAN]}

InitEmpty ==
    /\ lookups = <<>>
    /\ fs \in EmptyDirs
    /\ IdleControl

NextEmpty ==
    \E g \in Groups, o \in ModelOutcomes :
        AggregateCall(g, DEFAULT_REPORT_TYPE, o)

SpecEmpty == InitEmpty /\ [][NextEmpty]_vars

\* generateCombinedNewsletter with a model that answers every call
NextOnDemand ==
    \/ \E r \in Recipients, t \in ReportTypeArgs, subs \in SubredditLists :
            CombinedCall(r, t, subs)
    \/ CombinedBegin
    \/ CombinedVisit("echo")
    \/ CombinedFinish("echo")

SpecOnDemand == Init /\ [][NextOnDemand]_vars

\* The report command with every model call as two steps, issue and settle
NextSeq ==
    \/ \E r \in Recipients, t \in ReportTypeArgs : ReportStart(r, t)
    \/ SeqAggregateStart
    \/ \E k \in 1..Len(modelCalls), o \in ModelOutcomes :
            SeqAggregateSettle(k, o)
    \/ CombinedBegin
    \/ \E o \in ModelOutcomes : CombinedVisit(o)
    \/ Len(subredditAnalyses) = 0 /\ CombinedFinish("echo")
    \/ SeqSynthesisStart
    \/ \E k \in 1..Len(modelCalls), o \in ModelOutcomes :
            SeqSynthesisSettle(k, o)

SpecSeq == Init /\ [][NextSeq]_vars

\* The stage functions, called directly or by the commands
SpecStages == Init /\ [][Next \/ NextScrape]_vars

\* What analyzeArticleAndComments can be given
AnalyzeInputs ==
    {[index |-> j, title |-> PostTitle("a", j), link |-> PostLink("a", j),
      externalLink |-> x, comments |-> c, articleText |-> t] :
        j \in 1..2, x \in {"", "https://example.com/story"},
        c \in CommentLists, t \in {<<>>, <<"text of the article">>}}

InitAnalyze ==
    /\ lookups = <<>>
    /\ fs = EmptyRunDir
    /\ reports = <<>>
    /\ cmd = "none"
    /\ pc = "idle"
    /\ subreddits = <<>>
    /\ idx = 0
    /\ reportConfig = Undefined
    /\ recipientName = "null"
    /\ newsletter = <<>>
    /\ subredditAnalyses = <<>>
    /\ ret = NoReturn
    /\ aggLog = <<>>
    /\ synth = <<>>
    /\ visited = <<>>
    /\ nlLog = <<>>
    /\ digests = <<>>
    /\ cli = NoCli
    /\ postsToVisit = <<>>
    /\ postLocals \in AnalyzeInputs
    /\ pages = {}
    /\ analyzeLog = <<>>
    /\ modelCalls = <<>>

\* A call of analyzeArticleAndComments with the given arguments
AnalyzeCall(outcome) ==
    /\ pc = "idle"
    /\ cmd' = "analyze"
    /\ pc' = "done"
    /\ LET r == analyzeArticleAndComments(postLocals.articleText,
                    postLocals.comments, postLocals.title, postLocals.link,
                    postLocals.externalLink, outcome)
       IN /\ analyzeLog' = Append(analyzeLog, r)
          /\ ret' = [fn |-> "analyzeArticleAndComments", ok |-> r.ok,
                     value |-> r.value]
    /\ UNCHANGED <<cli, modelCalls, digests, lookups, fs, reports, subreddits, idx,
                   reportConfig, recipientName, newsletter, subredditAnalyses,
                   aggLog, synth, visited, nlLog, postsToVisit, postLocals,
                   pages>>

NextAnalyze == \E o \in ModelOutcomes : AnalyzeCall(o)

SpecAnalyze == InitAnalyze /\ [][NextAnalyze]_vars

NextRegistry == \E t \in TypeNames : RegistryLookup(t)

SpecRegistry == InitRegistry /\ [][NextRegistry]_vars

-----------------------------------------------------------------------------
(* Properties *)

ConfigById(id) ==
    CHOOSE c \in {reportConfigs[t] : t \in DOMAIN reportConfigs} : c.id = id

\* The invocations of the Aggregator made so far
AggEntries == {aggLog[k] : k \in 1..Len(aggLog)}

\* generateCombinedNewsletter has run to its end
CombinedReturned == pc = "done" /\ ret.fn = "generateCombinedNewsletter"

\* C1: every type name that is not registered, inherited property names
\* included, gets the very config object the default type name gets.
C1_UnregisteredGetsDefault ==
    \A k \in 1..Len(lookups) :
        lookups[k].type \notin getAvailableReportTypes
            => lookups[k].result = getReportConfig(DEFAULT_REPORT_TYPE).id

\* C2: when the model answers the config's own sentinel for every item of a
\* group, the digest of generateNewsletter is the intro followed by the
\* footer and nothing in between.
C2_AllSentinelEmptyBody ==
    \A k \in 1..Len(nlLog) :
        LET e == nlLog[k] IN
        (/\ e.ok
         /\ Len(e.outcomes) > 0
         /\ \A i \in 1..Len(e.outcomes) :
                e.outcomes[i] = ConfigById(e.cfg).sentinel)
            => e.value = e.intro \o e.footer

\* The on-demand Aggregator invocations made for group g
OnDemandCalls(g) ==
    Cardinality({k \in 1..Len(aggLog) :
        aggLog[k].context = "on-demand" /\ aggLog[k].sub = g})

\* The groups visited so far that have a GroupAnalysis, in list order
VisitedWithAnalysis ==
    LET kept == SelectSeq(SubSeq(subreddits, 1, Len(visited)),
                          LAMBDA g : Exists(fs[g].analysis))
    IN [k \in 1..Len(kept) |->
          [subreddit |-> kept[k], analysis |-> Read(fs[kept[k]].analysis)]]

\* C3: generateCombinedNewsletter runs the Aggregator exactly once for each
\* requested group whose subreddit_analysis.md is absent (and not at all
\* for the others), skips the group if the file is still absent, and goes
\* on with the remaining groups in list order.
C3_OnDemandOnceThenSkip ==
    /\ \A k \in 1..Len(visited) :
          /\ visited[k].sub = subreddits[k]
          /\ OnDemandCalls(visited[k].sub)
                = IF Exists(visited[k].before) THEN 0 ELSE 1
    /\ pc \in {"visit", "finish"} => subredditAnalyses = VisitedWithAnalysis
    /\ pc = "finish" \/ CombinedReturned => Len(visited) = Len(subreddits)

\* A group was absent, tried once and skipped, and a later group was taken
C3_Witness ==
    /\ pc = "finish"
    /\ Len(visited) = 2
    /\ ~Exists(visited[1].before)
    /\ ~Exists(fs[visited[1].sub].analysis)
    /\ OnDemandCalls(visited[1].sub) = 1
    /\ Len(subredditAnalyses) = 1
    /\ subredditAnalyses[1].subreddit = visited[2].sub

\* The Aggregator invocations of the report command's own loop
ReportEntries == SelectSeq(aggLog, LAMBDA e : e.context = "report")

\* The report command met one group it could not aggregate and one it could
MixedReport ==
    /\ cmd = "report"
    /\ \E k \in 1..Len(ReportEntries) : ~ReportEntries[k].ok
    /\ \E k \in 1..Len(ReportEntries) : ReportEntries[k].ok

\* The digest prompt has a section for exactly the groups with a
\* GroupAnalysis
CoversGroupsWithAnalysis(prompt, subs) ==
    \A k \in 1..Len(subs) :
        IF Exists(fs[subs[k]].analysis)
        THEN Includes(prompt,
                <<"--- SUBREDDIT: r/", subs[k], " ---\nSubreddit URL: ",
                  "https://reddit.com/r/", subs[k], "\n">>
                    \o Read(fs[subs[k]].analysis) \o <<"\n">>)
        ELSE ~Includes(prompt, <<"--- SUBREDDIT: r/", subs[k]>>)

\* C4: in the report command a group whose aggregation fails does not stop
\* the groups after it from being aggregated, and the combined digest is
\* still composed from the groups that have a GroupAnalysis and written
\* (unless the synthesis call itself fails).
C4_ReportSurvivesBrokenGroup ==
    (MixedReport /\ pc = "done") =>
        /\ [k \in 1..Len(ReportEntries) |-> ReportEntries[k].sub] = subreddits
        /\ Len(synth) = 1
        /\ CoversGroupsWithAnalysis(synth[1].prompt, subreddits)
        /\ synth[1].outcome # "throw" =>
              /\ CombinedPath(reportConfig, recipientName) \in DOMAIN reports
              /\ reports[CombinedPath(reportConfig, recipientName)] = ret.value
              /\ ret.ok

\* The first group failed, the second was aggregated, the digest is written
C4_Witness ==
    /\ MixedReport
    /\ pc = "done"
    /\ ~ReportEntries[1].ok
    /\ ReportEntries[2].ok
    /\ ~Exists(fs[subreddits[1]].analysis)
    /\ CombinedPath(reportConfig, recipientName) \in DOMAIN reports

\* C5: in the scrape command, a requested group without GroupAnalysis next
\* to one that has it does not keep the combined digest from being
\* generated.
C5_MainSurvivesBrokenGroup ==
    (/\ cmd = "main"
     /\ pc = "done"
     /\ \E k \in 1..Len(subreddits) : ~Exists(fs[subreddits[k]].analysis)
     /\ \E k \in 1..Len(subreddits) : Exists(fs[subreddits[k]].analysis))
        => /\ Len(synth) = 1
           /\ synth[1].outcome # "throw" =>
                 CombinedPath(reportConfig, recipientName) \in DOMAIN reports

\* The sections the items with a persisted analysis call for
ExpectedSections(posts) ==
    LET kept == SelectSeq(posts, HasAnalysis)
    IN [k \in 1..Len(kept) |->
          <<"--- POST ", ToString(k), ": ">> \o kept[k].title
            \o <<" ---\nPost URL: ">> \o kept[k].link \o <<"\n">>
            \o (IF Exists(kept[k].md) THEN Read(kept[k].md)
                ELSE Read(kept[k].txt)) \o <<"\n">>]

\* C6: the prompt sent for a group with N analysed items has exactly N
\* tagged sections, each with its item's own title and link, in listing
\* order.
C6_OneSectionPerItem ==
    \A e \in AggEntries :
        e.called =>
            /\ Count(e.prompt, "--- POST ")
                  = Len(SelectSeq(e.before.posts, HasAnalysis))
            /\ Includes(e.prompt,
                  Join(ExpectedSections(e.before.posts), <<"\n\n">>))

\* C7: with no analysed item in the group the Aggregator returns an error
\* value and subreddit_analysis.md is as it was (absent or unchanged).
C7_NoAnalysesNoWrite ==
    \A e \in AggEntries :
        Len(SelectSeq(e.before.posts, HasAnalysis)) = 0 =>
            /\ ~e.ok
            /\ IsErrorValue(e.value)
            /\ ~e.called
            /\ e.after.analysis = e.before.analysis

\* Item directories without analysis, and an earlier group analysis kept
C7_Witness ==
    \E e \in AggEntries :
        /\ e.cfg # "undefined"
        /\ Len(e.before.posts) > 0
        /\ Len(SelectSeq(e.before.posts, HasAnalysis)) = 0
        /\ Exists(e.before.analysis)
        /\ e.after.analysis = e.before.analysis

TwoGroupScenario ==
    /\ Len(fs["a"].posts) = 1
    /\ Len(fs["b"].posts) = 1
    /\ fs["a"].posts[1].md = File(<<"X">>)
    /\ fs["b"].posts[1].md = File(<<"Y">>)

\* Every model call of the report command echoed its prompt
AllEchoed ==
    /\ Len(ReportEntries) = 2
    /\ \A k \in 1..Len(aggLog) : aggLog[k].ok
    /\ Len(synth) = 1
    /\ synth[1].outcome = "echo"

\* C9: with an echoing model the report command writes a GroupAnalysis for
\* a that contains X and one for b that contains Y, and a digest that
\* contains both GroupAnalysis texts.
C9_EndToEndEcho ==
    (cmd = "report" /\ pc = "done" /\ TwoGroupScenario /\ AllEchoed) =>
        /\ Exists(fs["a"].analysis) /\ Includes(Read(fs["a"].analysis), <<"X">>)
        /\ Exists(fs["b"].analysis) /\ Includes(Read(fs["b"].analysis), <<"Y">>)
        /\ CombinedPath(reportConfig, recipientName) \in DOMAIN reports
        /\ Includes(reports[CombinedPath(reportConfig, recipientName)],
                    Read(fs["a"].analysis))
        /\ Includes(reports[CombinedPath(reportConfig, recipientName)],
                    Read(fs["b"].analysis))

C9_Witness ==
    /\ cmd = "report"
    /\ pc = "done"
    /\ TwoGroupScenario
    /\ AllEchoed
    /\ CombinedPath(reportConfig, recipientName) \in DOMAIN reports

\* No requested group has a GroupAnalysis
NoGroupAnalysis ==
    \A k \in 1..Len(subreddits) : ~Exists(fs[subreddits[k]].analysis)

\* C10: when no requested group has a GroupAnalysis after the on-demand
\* attempts, generateCombinedNewsletter returns an error value, makes no
\* synthesis call and writes no digest.
C10_NoGroupsNoDigest ==
    (CombinedReturned /\ NoGroupAnalysis) =>
        /\ ~ret.ok
        /\ IsErrorValue(ret.value)
        /\ synth = <<>>
        /\ CombinedPath(reportConfig, recipientName) \notin DOMAIN reports

\* Two groups requested, each tried on demand, none with an analysis
C10_Witness ==
    /\ CombinedReturned
    /\ NoGroupAnalysis
    /\ Len(subreddits) = 2
    /\ \A k \in 1..Len(subreddits) : OnDemandCalls(subreddits[k]) = 1
    /\ ~ret.ok

\* C11: two generateCombinedNewsletter invocations on one run that differ
\* in the ReportConfig or in the recipient label (no label being one value
\* of the label) write their digests to different paths.
C11_DistinctParamsDistinctPaths ==
    \A i, j \in 1..Len(digests) :
        (/\ i < j
         /\ digests[i].written
         /\ digests[j].written
         /\ \/ digests[i].cfg # digests[j].cfg
            \/ digests[i].recipient # digests[j].recipient)
            => digests[i].path # digests[j].path

\* The invocations before the k-th that were made with its parameters and
\* wrote their digest
EarlierSameParams(k) ==
    {i \in 1..(k - 1) :
        /\ digests[i].written
        /\ digests[i].cfg = digests[k].cfg
        /\ digests[i].recipient = digests[k].recipient}

\* C12: a second generateCombinedNewsletter with the same run directory,
\* ReportConfig and recipient label returns its digest (the write does not
\* fail) whenever its synthesis call resolves, and the file then holds that
\* second digest and nothing of the first.
C12_SecondDigestReplacesFirst ==
    \A k \in 1..Len(digests) :
        (EarlierSameParams(k) # {} /\ digests[k].called
            /\ digests[k].outcome # "throw")
            => /\ digests[k].written
               /\ ~IsErrorValue(digests[k].value)
               /\ k = Len(digests) =>
                      reports[digests[k].path] = digests[k].value

\* Two digests for the same parameters with different content, the file
\* holding the second
C12_Witness ==
    /\ Len(digests) = 2
    /\ pc = "done"
    /\ EarlierSameParams(2) = {1}
    /\ digests[2].written
    /\ digests[1].value # digests[2].value
    /\ reports[digests[2].path] = digests[2].value

\* The parse has ended and the command line is still at hand
Parsed(command) ==
    /\ cli.command = command
    /\ pc = "parsed" \/ (pc = "done" /\ cli.exit = "1")

\* The first argument is missing or is a flag
LacksRunDir(argv) == Len(argv) = 0 \/ StartsWithDashes(argv[1])

\* A flag the command does not know, not standing as the value of a flag
HasUnknownFlag(argv) ==
    \E i \in 1..Len(argv) :
        /\ StartsWithDashes(argv[i])
        /\ argv[i] \notin {"--recipient", "--type"}
        /\ i = 1 \/ argv[i - 1] \notin {"--recipient", "--type"}

\* A flag with nothing after it
HasValuelessFlag(argv) ==
    Len(argv) > 0 /\ argv[Len(argv)] \in {"--recipient", "--type"}

\* The last line printed is the usage message
UsagePrinted == cli.log # <<>> /\ cli.log[Len(cli.log)].kind = "usage"

\* C14: an analyze.js command line that lacks the run directory (its first
\* argument missing or a flag) or holds an unknown or value-less flag ends
\* in exit status 1 after the usage message, before processAllAnalyses is
\* called: nothing read, no model call, no file written.
C14_MalformedExitsBeforeWork ==
    (/\ Parsed("analyze")
     /\ \/ LacksRunDir(cli.argv)
        \/ HasUnknownFlag(cli.argv)
        \/ HasValuelessFlag(cli.argv))
        => /\ cli.exit = "1"
           /\ UsagePrinted
           /\ pc = "done"
           /\ aggLog = <<>> /\ synth = <<>> /\ reports = <<>>

\* The lines printed for the --type flags
TypeEvents == SelectSeq(cli.log, LAMBDA e : e.kind \in {"set", "warn"})

\* The last --type flag read names an unregistered type
UnregisteredTypeNamed ==
    TypeEvents # <<>> /\ TypeEvents[Len(TypeEvents)].kind = "warn"

\* C15: when --type names an unregistered type the command has warned and
\* goes on with the default type, and the Aggregator calls and the digest of
\* that run use the default ReportConfig.
C15_UnknownTypeFallsBack ==
    (cli.command # "none" /\ cli.exit = "none" /\ UnregisteredTypeNamed) =>
        /\ cli.reportType = DEFAULT_REPORT_TYPE
        /\ \A k \in 1..Len(aggLog) :
              aggLog[k].context = "report" =>
                  aggLog[k].cfg = getReportConfig(DEFAULT_REPORT_TYPE).id
        /\ \A k \in 1..Len(digests) :
              digests[k].cfg = getReportConfig(DEFAULT_REPORT_TYPE).id

RECURSIVE LeadingNames(_)
\* The arguments before the first flag
LeadingNames(argv) ==
    IF argv = <<>> \/ StartsWithDashes(Head(argv)) THEN <<>>
    ELSE <<Head(argv)>> \o LeadingNames(Tail(argv))

\* The command line with its leading subreddit names moved behind the rest
FlagsFirst(argv) ==
    SubSeq(argv, Len(LeadingNames(argv)) + 1, Len(argv)) \o LeadingNames(argv)

\* Subreddit names followed by --recipient and --type flags with values
NamesThenFlags(argv) ==
    LET names == LeadingNames(argv)
        flags == SubSeq(argv, Len(names) + 1, Len(argv))
        p == ParseFlags(flags, 1, ParseStart)
    IN /\ names # <<>>
       /\ flags # <<>>
       /\ p.exit = "none"
       /\ p.argIndex = Len(flags) + 1

\* C16: a scrape command line with the flags after the subreddit names is
\* parsed to the recipient, report type and subreddit list that the same
\* command line with the flags first is parsed to.
C16_FlagOrderIrrelevant ==
    (Parsed("scrape") /\ NamesThenFlags(cli.argv)) =>
        LET q == ParseScrapeArgs(FlagsFirst(cli.argv))
        IN /\ cli.exit = q.exit
           /\ cli.recipientName = q.recipientName
           /\ cli.reportType = q.reportType
           /\ cli.subreddits = q.subreddits

\* The type names the usage message and the README offer
OfferedTypes == {"newsletter", "market", "academic"}

\* C17: each offered type name, given to the report command with --type,
\* is taken as the report type without a warning and selects a ReportConfig
\* of its own.
C17_OfferedTypesRegistered ==
    (/\ Parsed("analyze")
     /\ Len(cli.argv) = 3
     /\ cli.argv[1] = RunDirArg
     /\ cli.argv[2] = "--type"
     /\ cli.argv[3] \in OfferedTypes)
        => /\ cli.exit = "none"
           /\ cli.log = <<LogEvent("set", cli.argv[3])>>
           /\ cli.reportType = cli.argv[3]
           /\ \A t \in (OfferedTypes \cap getAvailableReportTypes)
                            \ {cli.argv[3]} :
                  getReportConfig(t) # getReportConfig(cli.argv[3])

\* The templates every ReportConfig has to carry
TemplateFields ==
    {"newsletterIntro", "subredditAnalysisPrompt", "combinedNewsletterPrompt",
     "newsletterItemPrompt", "combinedNewsletterFooter"}

\* The lookups of registered names
RegisteredLookups ==
    {k \in 1..Len(lookups) : lookups[k].type \in getAvailableReportTypes}

\* C18: every name of getAvailableReportTypes is looked up to one
\* ReportConfig with a name, a description and the five templates, two
\* different names to two different configs, and DEFAULT_REPORT_TYPE is one
\* of the names.
C18_RegistryWellFormed ==
    /\ DEFAULT_REPORT_TYPE \in getAvailableReportTypes
    /\ \A k \in RegisteredLookups :
          LET c == reportConfigs[lookups[k].type]
          IN /\ lookups[k].result = c.id
             /\ {"name", "description"} \cup TemplateFields \subseteq DOMAIN c
             /\ c.name # "" /\ c.description # ""
             /\ \A f \in TemplateFields : Len(c[f]) > 0
    /\ \A k, l \in RegisteredLookups :
          (lookups[k].type = lookups[l].type)
              <=> (lookups[k].result = lookups[l].result)

\* Every registered name has been looked up, one of them twice
C18_Witness ==
    /\ {lookups[k].type : k \in RegisteredLookups} = getAvailableReportTypes
    /\ Cardinality(RegisteredLookups) = 3
    /\ Cardinality({lookups[k].result : k \in RegisteredLookups}) = 2

\* The authors of the comment blocks of a prompt, in the order of the blocks
AuthorsEmbedded(prompt) ==
    LET at == SelectSeq([i \in 1..Len(prompt) |-> i],
                        LAMBDA i : prompt[i] = "---\nAuthor: ")
    IN [k \in 1..Len(at) |-> prompt[at[k] + 1]]

\* The block a comment is to be embedded as
ExpectedComment(c) ==
    <<"---\nAuthor: ", c.author>>
        \o (IF c.isOP THEN <<" (Original Poster)">> ELSE <<>>)
        \o <<"\nScore: ", c.score, "\nComment: ">> \o c.text \o <<"\n---">>

\* C20: the prompt of analyzeArticleAndComments has one block for each of
\* the first min(n, 10) of the n comments given, in the order given, and
\* none for a later comment (a block holds the comment's author, score and
\* text, the text as given when it has no "$"); with no comment it has the
\* text "No comments available" instead.
C20_TopTenCommentsInOrder ==
    \A k \in 1..Len(analyzeLog) :
        LET e == analyzeLog[k]
            n == Len(e.comments)
            m == IF n < 10 THEN n ELSE 10
        IN /\ AuthorsEmbedded(e.prompt) = [i \in 1..m |-> e.comments[i].author]
           /\ \A i \in 1..m :
                 (\A j \in 1..Len(e.comments[i].text) :
                      e.comments[i].text[j] \notin {"$$", "$&"})
                     => Includes(e.prompt, ExpectedComment(e.comments[i]))
           /\ \A i \in (m + 1)..n :
                 ~Includes(e.prompt, <<e.comments[i].author>>)
           /\ (n = 0) <=> Includes(e.prompt, <<"No comments available">>)

\* More than ten comments were given, the best-scored last
C20_Witness ==
    \E k \in 1..Len(analyzeLog) :
        /\ Len(analyzeLog[k].comments) > 10
        /\ analyzeLog[k].comments[1].score = "1"
        /\ Len(AuthorsEmbedded(analyzeLog[k].prompt)) = 10

\* The loop of processSubreddit is between two posts or has ended
BetweenPosts == cmd = "scrape" /\ pc \in {"post", "done"}

\* C19: when the processing of a post has ended, every post directory with
\* metadata.json also holds an analysis file, whatever failed on the way.
C19_AnalysisForEveryItem ==
    BetweenPosts =>
        \A g \in Groups :
            \A j \in 1..Len(fs[g].posts) :
                fs[g].posts[j].meta =>
                    (Exists(fs[g].posts[j].md) \/ Exists(fs[g].posts[j].txt))

\* A string that describes a failure, as the catch blocks build it
IsFailureString(text) ==
    /\ Len(text) = 2
    /\ text[1] \in {"Error generating subreddit analysis: ",
                     "Error generating topic-based digest: ",
                     "Error generating newsletter: ",
                     "Error analyzing post content and comments: ",
                     "Error processing analyses: "}

\* C13: every call of generateSubredditAnalysis, generateCombinedNewsletter,
\* generateNewsletter and analyzeArticleAndComments has returned its product
\* or a string describing the failure, whatever the run directory holds and
\* however the model behaves, and a finished processAllAnalyses has come
\* to its end or logged its own failure.
C13_NoExceptionEscapes ==
    /\ \A k \in 1..Len(aggLog) :
          aggLog[k].ok \/ IsFailureString(aggLog[k].value)
    /\ \A k \in 1..Len(nlLog) :
          nlLog[k].ok \/ IsFailureString(nlLog[k].value)
    /\ \A k \in 1..Len(analyzeLog) :
          analyzeLog[k].ok \/ IsFailureString(analyzeLog[k].value)
    /\ \A k \in 1..Len(digests) :
          digests[k].written \/ IsFailureString(digests[k].value)
    /\ ret.fn # "none" => (ret.ok \/ IsFailureString(ret.value))
    /\ (cmd = "report" /\ pc = "done") =>
          ret.fn \in {"generateCombinedNewsletter", "processAllAnalyses"}

\* The report command has ended after the model failed in both ways in the
\* Aggregator and then in the synthesis
C13_Witness ==
    /\ cmd = "report"
    /\ pc = "done"
    /\ Len(ReportEntries) = 2
    /\ ReportEntries[1].called /\ ~ReportEntries[1].ok
    /\ ReportEntries[2].called /\ ~ReportEntries[2].ok
    /\ ReportEntries[1].value # ReportEntries[2].value
    /\ Len(synth) = 1
    /\ synth[1].outcome = "throw"
    /\ ~ret.ok

\* C21: when the report command meets a group whose subreddit_analysis.md
\* already exists, it makes no Aggregator model call for that group and
\* leaves the file as it is.
C21_ExistingAnalysisSkipped ==
    \A k \in 1..Len(ReportEntries) :
        Exists(ReportEntries[k].before.analysis) =>
            /\ ~ReportEntries[k].called
            /\ ReportEntries[k].after.analysis
                  = ReportEntries[k].before.analysis

\* C22: when every item analysis the reader finds in a group is empty text,
\* generateSubredditAnalysis returns a no-content error value, makes no
\* model call and writes no subreddit_analysis.md.
C22_AllEmptyNoContent ==
    \A e \in AggEntries :
        (/\ Len(CollectPostAnalyses(e.before.posts)) > 0
         /\ \A k \in 1..Len(CollectPostAnalyses(e.before.posts)) :
                CollectPostAnalyses(e.before.posts)[k].analysis = EmptyText)
            => /\ ~e.ok
               /\ IsErrorValue(e.value)
               /\ ~e.called
               /\ e.after.analysis = e.before.analysis

\* C23: with a model that answers, a requested group that has no
\* subreddit_analysis.md but an item with metadata and an analysis has, once
\* generateCombinedNewsletter has visited it, a subreddit_analysis.md
\* written by the on-demand Aggregator run and an entry among the analyses
\* the digest prompt is built from.
C23_OnDemandGenerates ==
    \A k \in 1..Len(visited) :
        (/\ ~Exists(visited[k].before)
         /\ Len(CollectPostAnalyses(fs[visited[k].sub].posts)) > 0)
            => /\ Exists(fs[visited[k].sub].analysis)
               /\ \E i \in 1..Len(subredditAnalyses) :
                     /\ subredditAnalyses[i].subreddit = visited[k].sub
                     /\ subredditAnalyses[i].analysis
                           = Read(fs[visited[k].sub].analysis)

\* The Aggregator invocation of the report command for group g has started
AggregatorStarted(g) ==
    \/ \E k \in 1..Len(ReportEntries) : ReportEntries[k].sub = g
    \/ \E k \in 1..Len(modelCalls) :
          modelCalls[k].fn = "generateSubredditAnalysis" /\ modelCalls[k].sub = g

\* ... and has returned
AggregatorReturned(g) ==
    \E k \in 1..Len(ReportEntries) : ReportEntries[k].sub = g

\* generateCombinedNewsletter has been entered by the report command
CombinedStarted ==
    /\ cmd = "report"
    /\ \/ pc \in {"visit", "finish", "synthWait"}
       \/ Len(digests) > 0
       \/ \E k \in 1..Len(modelCalls) :
             modelCalls[k].fn = "generateCombinedNewsletter"

\* C24: in processAllAnalyses at most one model call is outstanding at any
\* moment, the Aggregator of a group has started only if the Aggregator of
\* every group before it in the discovered list has returned, and
\* generateCombinedNewsletter has started only if the Aggregator has
\* returned for every discovered group.
C24_OneCallAtATime ==
    cmd = "report" =>
        /\ Cardinality(Outstanding) <= 1
        /\ \A i \in 1..Len(subreddits) :
              AggregatorStarted(subreddits[i]) =>
                  \A j \in 1..(i - 1) : AggregatorReturned(subreddits[j])
        /\ CombinedStarted =>
              /\ \A i \in 1..Len(subreddits) : AggregatorReturned(subreddits[i])
              /\ \A k \in Outstanding :
                    modelCalls[k].fn = "generateCombinedNewsletter"

\* Two groups were aggregated with one model call each, both have settled,
\* and the synthesis call is the one outstanding
C24_Witness ==
    /\ cmd = "report"
    /\ pc = "synthWait"
    /\ Len(modelCalls) = 3
    /\ modelCalls[1].settled /\ modelCalls[2].settled
    /\ modelCalls[1].sub # modelCalls[2].sub
    /\ Outstanding = {3}

\* C25: every invocation of generateSubredditAnalysis makes one model call
\* when the reader collected at least one item analysis and none when it
\* collected nothing (group directory missing, no item directory, no
\* analysis file); when it returns the model's answer, subreddit_analysis.md
\* holds exactly that answer, whatever it held before.
C25_OneCallPerAggregation ==
    \A e \in AggEntries :
        /\ e.called <=>
              (e.before.exists /\ Len(CollectPostAnalyses(e.before.posts)) > 0)
        /\ e.ok => (e.called /\ e.after.analysis = File(e.value))

\* The placeholders of a newsletterIntro template
IntroPlaceholders == {"{recipient_name}", "{date}", "{subreddit}"}

\* The intro template with every placeholder occurrence replaced
ExpectedIntro(cfg, recipient, group) ==
    [i \in 1..Len(cfg.newsletterIntro) |->
        CASE cfg.newsletterIntro[i] = "{recipient_name}" ->
                IF recipient = "null" THEN "there" ELSE recipient
          [] cfg.newsletterIntro[i] = "{date}" -> currentDate
          [] cfg.newsletterIntro[i] = "{subreddit}" -> group
          [] OTHER -> cfg.newsletterIntro[i]]

StartsWith(text, prefix) ==
    Len(prefix) <= Len(text) /\ SubSeq(text, 1, Len(prefix)) = prefix

EndsWith(text, suffix) ==
    /\ Len(suffix) <= Len(text)
    /\ SubSeq(text, Len(text) - Len(suffix) + 1, Len(text)) = suffix

\* A digest of the given config, label and group identifier is well framed
Framed(text, cfg, recipient, group) ==
    /\ StartsWith(text, ExpectedIntro(cfg, recipient, group))
    /\ \A i \in 1..Len(cfg.newsletterIntro) : text[i] \notin IntroPlaceholders
    /\ EndsWith(text, cfg.combinedNewsletterFooter)

\* C26: every digest that generateCombinedNewsletter or generateNewsletter
\* has produced starts with the config's intro in which each occurrence of
\* {recipient_name}, {date} and {subreddit} is replaced (label or 'there',
\* the date, the group or 'combined') and ends with the config's footer.
C26_DigestFramed ==
    /\ \A k \in 1..Len(digests) :
          digests[k].written =>
              Framed(digests[k].value, ConfigById(digests[k].cfg),
                     digests[k].recipient, "combined")
    /\ \A k \in 1..Len(nlLog) :
          nlLog[k].ok =>
              Framed(nlLog[k].value, ConfigById(nlLog[k].cfg),
                     recipientName, nlLog[k].sub)

\* The placeholders of the two item-level prompt templates
AnalysisPlaceholders ==
    {"{postTitle}", "{postLink}", "{externalLinkSection}", "{articleText}",
     "{formattedComments}"}

ItemPlaceholders == {"{postLink}", "{analysisText}"}

PlaceholderFree(text, placeholders) ==
    \A i \in 1..Len(text) : text[i] \notin placeholders

\* The inclusion prompts generateNewsletter invocation e has sent: one for
\* each model call it made, for the analysed items in listing order
ItemPromptsSent(e) ==
    LET kept == CollectPostAnalyses(fs[e.sub].posts)
    IN [i \in 1..Len(e.outcomes) |->
          NewsletterItemPrompt(ConfigById(e.cfg),
              [link |-> kept[i].link, analysis |-> kept[i].analysis])]

\* C27: no prompt that analyzeArticleAndComments or generateNewsletter has
\* sent to the model for an item holds a placeholder of its template: each
\* occurrence was replaced by the item's value.
C27_ItemPromptsFilled ==
    /\ \A k \in 1..Len(analyzeLog) :
          PlaceholderFree(analyzeLog[k].prompt, AnalysisPlaceholders)
    /\ \A k \in 1..Len(nlLog) :
          \A i \in 1..Len(nlLog[k].outcomes) :
              PlaceholderFree(ItemPromptsSent(nlLog[k])[i], ItemPlaceholders)

\* The Aggregator invocation e of the report command failed on a group that
\* had a subreddit_analysis.md
FailedOverExisting(e) == ~e.ok /\ Exists(e.before.analysis)

\* C28: an invocation of generateSubredditAnalysis that returns an error
\* value leaves an existing subreddit_analysis.md as it was, and when
\* generateCombinedNewsletter afterwards visits the group it finds that
\* file and collects its content.
C28_FailureKeepsEarlierAnalysis ==
    /\ \A e \in AggEntries : ~e.ok => e.after.analysis = e.before.analysis
    /\ cmd = "report" =>
          \A k \in 1..Len(visited) : \A i \in 1..Len(ReportEntries) :
              (ReportEntries[i].sub = visited[k].sub
                    /\ FailedOverExisting(ReportEntries[i]))
                 => /\ visited[k].before = ReportEntries[i].before.analysis
                    /\ \E j \in 1..Len(subredditAnalyses) :
                          subredditAnalyses[j] =
                              [subreddit |-> visited[k].sub,
                               analysis |->
                                  Read(ReportEntries[i].before.analysis)]

\* The model call of the Aggregator failed on a group with an earlier
\* analysis, and the digest prompt was built with that analysis
C28_Witness ==
    /\ cmd = "report"
    /\ pc = "done"
    /\ Len(synth) = 1
    /\ \E i \in 1..Len(ReportEntries) :
          /\ ReportEntries[i].called
          /\ FailedOverExisting(ReportEntries[i])
          /\ Includes(synth[1].prompt, StaleAnalysis(ReportEntries[i].sub))

\* C29: between two iterations of the post loop and at the end of
\* processSubreddit no page opened for a post or for an external link is
\* open, whichever way the iterations so far have ended.
C29_PagesClosed ==
    BetweenPosts => \A p \in pages : p.kind \notin {"post", "external"}

\* The item directory made for post i of the listing: posts without link
\* get none
ItemOf(i) ==
    Cardinality({j \in 1..i : postsToVisit[j].link # <<"No link found">>})

\* The posts of the listing whose external link could not be followed
ExternalFailed ==
    {p.index : p \in {q \in pages : q.kind = "external"}}

\* C30: for a link post whose external link could not be followed, the
\* item's article.txt holds a text starting 'Unable to access external
\* link: ', the iteration goes on to analyzeArticleAndComments, which is
\* called with that text and whose result is written as analysis.md, and
\* processSubreddit ends only after the remaining posts were gone through.
C30_ExternalFailureTolerated ==
    cmd = "scrape" =>
        \A i \in ExternalFailed :
            LET item == fs[subreddits[1]].posts[ItemOf(i)]
            IN /\ Exists(item.article)
               /\ StartsWith(Read(item.article),
                             <<"Unable to access external link: ">>)
               /\ idx = i => pc = "analyze"
               /\ idx # i =>
                     /\ Exists(item.md)
                     /\ \E k \in 1..Len(analyzeLog) :
                           /\ Includes(analyzeLog[k].prompt, Read(item.article))
                           /\ analyzeLog[k].value = Read(item.md)
               /\ pc = "done" =>
                     /\ idx = Len(postsToVisit) + 1
                     /\ Len(fs[subreddits[1]].posts) = ItemOf(Len(postsToVisit))

\* The first post's external link failed, its analysis was written, and the
\* second post was scraped and analysed as well
C30_Witness ==
    /\ cmd = "scrape"
    /\ pc = "done"
    /\ 1 \in ExternalFailed
    /\ Len(postsToVisit) = 2
    /\ Len(fs[subreddits[1]].posts) = 2
    /\ Exists(fs[subreddits[1]].posts[1].md)
    /\ Exists(fs[subreddits[1]].posts[2].md)
    /\ Len(analyzeLog) = 2

=============================================================================
